---- MODULE Spec2Model ----
(***************************************************************************)
(* Model of agama's network reconciliation path:                           *)
(*   - the connection model and its equality (network/model.rs),           *)
(*   - NetworkManagerAdapter::read / write and ordered_connections         *)
(*     (network/nm/adapter.rs).                                            *)
(* A write call is followed await by await: every backend call is one step *)
(* and may succeed or fail with an opaque backend error.                   *)
(***************************************************************************)
EXTENDS Naturals, Integers, Sequences, FiniteSets, TLC

VARIABLES
    network,     \* the desired NetworkState handed to write (&NetworkState)
    live,        \* the connections the backend holds when write starts
    pc,          \* position inside write
    old_state,   \* write's local old_state (result of self.read())
    checkpoint,  \* write's local checkpoint handle, <<>> before it is created
    order,       \* the list ordered_connections(network), as indices into network.connections
    idx,         \* position of the for loop in order
    failed,      \* the error e of the failed connection write, <<>> if none
    calls,       \* every backend call issued so far, in order, with its outcome
    errlog,      \* the log::error! lines written by write
    result,      \* the value write returned, <<>> while it is running
    last_op,     \* the last State Registry operation: its arguments, its
                 \* result and the connection list it was applied to
    tree,        \* the Tree: its ObjectsRegistry (tree.objects) and the object
                 \* server of its D-Bus connection (tree.server)
    todo,        \* what the loop of the running Tree operation has left
    attempts,    \* install's local attempts (u8)
    actions,     \* the channel of Actions: what was sent and not yet received
    setters,     \* the calls of the D-Bus property setters that are running
    guard,       \* who holds the Mutex of the exposed connection, <<>> if free
    probe,       \* ProductStore::store's local probe
    product      \* the product the product service has selected, <<>> if none

vars == <<network, live, pc, old_state, checkpoint, order, idx, failed, calls, errlog, result, last_op, tree, todo, attempts, actions, setters, guard, probe, product>>

-----------------------------------------------------------------------------
(* Bounds *)

\* most connections in a desired state of the write specification
MaxConns == 2
\* most connections in a desired state of the ordering specification
MaxOrdConns == 3
\* the connection ids the State Registry operations are called with
MaxRegConns == 2
\* the connections the Tree and its ObjectsRegistry are called with
MaxTreeConns == 2
\* the largest max_attempts install is called with (main passes 3)
MaxAttempts == 3
\* the callers of the D-Bus property setters that run at the same time
MaxSetters == 2
\* the setter calls that get to change the exposed connection
MaxMutations == 3
\* the largest result code the product service answers register with
MaxResult == 3

-----------------------------------------------------------------------------
(* Option<T>: <<>> is None, <<x>> is Some(x) *)

None == <<>>
Some(x) == <<x>>

Min(S) == CHOOSE x \in S : \A y \in S : x <= y

-----------------------------------------------------------------------------
(* The connection model *)

\* enum Connection { Ethernet, Wireless, Loopback, Dummy, Bond }
Kinds == {"Ethernet", "Wireless", "Loopback", "Dummy", "Bond"}

\* enum Status { Up, Down, Removed }
Statuses == {"Up", "Down", "Removed"}

\* the variants that carry a config besides the base (wireless / bond)
HasConfig(kind) == kind \in {"Wireless", "Bond"}

\* Connection::is_loopback
is_loopback(conn) == conn.kind = "Loopback"

\* Connection::is_removed
is_removed(conn) == conn.status = "Removed"

\* an equality that also compares the MAC address
BaseConnection_eq_with_mac(a, b) ==
    /\ a.id = b.id /\ a.uuid = b.uuid /\ a.ip_config = b.ip_config
    /\ a.mac_address = b.mac_address

\* impl PartialEq for BaseConnection
BaseConnection_eq(a, b) ==
    a.id = b.id /\ a.uuid = b.uuid /\ a.ip_config = b.ip_config

\* #[derive(PartialEq)] on Connection and on the five variant structs: the same
\* variant, equal bases, and for Wireless / Bond an equal wireless / bond config
Connection_eq(a, b) ==
    /\ a.kind = b.kind
    /\ BaseConnection_eq(a, b)
    /\ (HasConfig(a.kind) => a.config = b.config)

\* NetworkState::get_connection_by_uuid: the first connection with that uuid,
\* as its index in the list
get_connection_by_uuid(state, uuid) ==
    LET hits == {i \in DOMAIN state.connections : state.connections[i].uuid = uuid}
    IN  IF hits = {} THEN None ELSE Some(Min(hits))

-----------------------------------------------------------------------------
(* adapter.rs *)

\* every connection is written, Loopback too
is_writable_always(conn) == TRUE

\* NetworkManagerAdapter::is_writable
is_writable(conn) == ~is_loopback(conn)

\* Vec::contains(&conn) on a Vec<&Connection>: compares with PartialEq
Contains(net, conns, i) ==
    \E k \in DOMAIN conns :
        Connection_eq(net.connections[conns[k]], net.connections[i])

\* the controller is not looked at: the input order is kept
add_ordered_connections_no_controller(i, net, acc) ==
    IF Contains(net, acc.conns, i) THEN acc
    ELSE [acc EXCEPT !.conns = Append(@, i)]

\* the connection is pushed before its controller
RECURSIVE add_ordered_connections_port_first(_, _, _)
add_ordered_connections_port_first(i, net, acc) ==
    LET conn == net.connections[i]
        own  == IF Contains(net, acc.conns, i) THEN acc
                ELSE [acc EXCEPT !.conns = Append(@, i)]
        ctrl == IF conn.controller = None
                THEN None
                ELSE get_connection_by_uuid(net, conn.controller[1])
    IN  IF conn.controller = None THEN own
        ELSE IF ctrl = None THEN [own EXCEPT !.panicked = TRUE]
        ELSE add_ordered_connections_port_first(ctrl[1], net, own)

\* add_ordered_connections: the controller first (recursively), then the
\* connection unless the list already contains it. acc.panicked records the
\* unwrap() of a controller that is not in the state. acc.stack holds the
\* connections whose call has not returned yet: conns only grows after the
\* recursive call returns, so a call for a connection that is on the stack
\* repeats the calls below it without end, and acc.overflow records that the
\* recursion never returns (it exhausts the call stack).
RECURSIVE add_ordered_connections(_, _, _)
add_ordered_connections(i, net, acc) ==
    LET conn == net.connections[i]
        ctrl == IF conn.controller = None
                THEN None
                ELSE get_connection_by_uuid(net, conn.controller[1])
        sub  == IF conn.controller = None THEN acc
                ELSE IF ctrl = None THEN [acc EXCEPT !.panicked = TRUE]
                ELSE [add_ordered_connections(ctrl[1], net,
                          [acc EXCEPT !.stack = @ \cup {i}])
                      EXCEPT !.stack = acc.stack]
    IN  IF acc.panicked \/ acc.overflow THEN acc
        ELSE IF i \in acc.stack THEN [acc EXCEPT !.overflow = TRUE]
        ELSE IF sub.panicked \/ sub.overflow THEN sub
        ELSE IF Contains(net, sub.conns, i) THEN sub
        ELSE [sub EXCEPT !.conns = Append(@, i)]

RECURSIVE ordered_from(_, _, _)
ordered_from(k, net, acc) ==
    IF k > Len(net.connections) THEN acc
    ELSE ordered_from(k + 1, net, add_ordered_connections(k, net, acc))

\* ordered_connections
ordered_connections(net) ==
    ordered_from(1, net, [panicked |-> FALSE, overflow |-> FALSE,
                          stack |-> {}, conns |-> <<>>])

-----------------------------------------------------------------------------
(* States write is started in *)

\* a connection value: the variant tag, the BaseConnection fields and the
\* variant's own config (wireless / bond; 0 for the variants that have none)
Conn(kind, id, uuid, ip, status, ctrl, mac, iface, mc, cfg) ==
    [kind |-> kind, id |-> id, uuid |-> uuid, mac_address |-> mac,
     ip_config |-> ip, status |-> status, interface |-> iface,
     controller |-> ctrl, match_config |-> mc, config |-> cfg]

\* the id and the uuid of the i-th connection of a desired state (ids and
\* uuids are only ever compared for equality, so their names do not matter)
IdOf(i) == i
UuidOf(i) == 100 + i

\* the controller chain from connection i ends within fuel steps
RECURSIVE ChainEnds(_, _, _)
ChainEnds(f, i, fuel) ==
    IF f[i].ctrl = 0 THEN TRUE
    ELSE IF fuel = 0 THEN FALSE
    ELSE ChainEnds(f, f[i].ctrl, fuel - 1)

\* the desired states of n connections with the given variants and statuses:
\* distinct ids and uuids, every controller an existing Bond, no cycle
DesiredStates(n, kinds, statuses) ==
    LET shapes == {f \in [1..n -> [kind : kinds, status : statuses, ctrl : 0..n]] :
                      \A i \in 1..n :
                          /\ f[i].ctrl # i
                          /\ f[i].ctrl # 0 => f[f[i].ctrl].kind = "Bond"
                          /\ ChainEnds(f, i, n)}
    IN  {[devices |-> <<>>,
          connections |->
            [i \in 1..n |->
                Conn(f[i].kind, IdOf(i), UuidOf(i), 0, f[i].status,
                     IF f[i].ctrl = 0 THEN <<>> ELSE <<UuidOf(f[i].ctrl)>>,
                     0, <<>>, 0, 0)]] : f \in shapes}

\* what the backend holds of a desired connection: nothing, a connection that
\* is the same but for its status (the backend knows no Removed status), or
\* one with another IP configuration
LiveChoices == {"absent", "same", "changed"}

LiveOf(conn, choice) ==
    IF choice = "same" THEN [conn EXCEPT !.status = "Up"]
    ELSE [conn EXCEPT !.status = "Up", !.ip_config = 1]

RECURSIVE LiveFrom(_, _, _)
LiveFrom(conns, h, k) ==
    IF k > Len(conns) THEN <<>>
    ELSE (IF h[k] = "absent" THEN <<>> ELSE <<LiveOf(conns[k], h[k])>>)
         \o LiveFrom(conns, h, k + 1)

LiveStates(net) ==
    {LiveFrom(net.connections, h, 1) : h \in [DOMAIN net.connections -> LiveChoices]}

-----------------------------------------------------------------------------
(* The backend client, as write sees it *)

\* the errors a backend call can fail with (opaque ServiceError values)
Causes == {"e1", "e2"}

\* the outcome of one backend call: None is Ok, Some(e) is Err(e)
Outcomes == {None} \cup {Some(e) : e \in Causes}

\* one backend call as recorded in calls: the operation, the connection it is
\* about (its index in network.connections and its uuid; 0 when the call has
\* no connection), the controller handed to add_or_update_connection, the
\* outcome
Call(op, conn, uuid, ctrl, r) ==
    [op |-> op, conn |-> conn, uuid |-> uuid, ctrl |-> ctrl, err |-> r]

\* Result<(), NetworkAdapterError>
Ok == [ok |-> TRUE]
Err(kind, e) == [ok |-> FALSE, kind |-> kind, cause |-> e]

\* the wrong error variant
read_err_as_checkpoint(e) == Err("Checkpoint", e)

\* .map_err(NetworkAdapterError::Read)
read_err(e) == Err("Read", e)

\* the wrong error variant
checkpoint_err_as_write(e) == Err("Write", e)

\* .map_err(NetworkAdapterError::Checkpoint)
checkpoint_err(e) == Err("Checkpoint", e)

\* the wrong error variant
write_err_as_checkpoint(e) == Err("Checkpoint", e)

\* Err(NetworkAdapterError::Write(e))
write_err(e) == Err("Write", e)

\* the handle create_checkpoint returns
CheckpointPath == "/org/freedesktop/NetworkManager/Checkpoint/1"

\* the devices the backend reports
Devices == <<[name |-> "eth0", type_ |-> "Ethernet"]>>

-----------------------------------------------------------------------------
(* NetworkManagerAdapter::read, called at the start of write *)

\* self.client.devices().await.map_err(NetworkAdapterError::Read)?
ReadDevices ==
    /\ pc = "read_devices"
    /\ \E r \in Outcomes :
        /\ calls' = Append(calls, Call("devices", 0, 0, None, r))
        /\ IF r = None
           THEN pc' = "read_connections" /\ UNCHANGED result
           ELSE pc' = "done" /\ result' = Some(read_err(r[1]))
    /\ UNCHANGED <<actions, setters, guard, probe, product, attempts, last_op, tree, todo, network, live, old_state, checkpoint, order, idx, failed, errlog>>

\* self.client.connections().await.map_err(NetworkAdapterError::Read)?
\* and Ok(NetworkState::new(devices, connections))
ReadConnections ==
    /\ pc = "read_connections"
    /\ \E r \in Outcomes :
        /\ calls' = Append(calls, Call("connections", 0, 0, None, r))
        /\ IF r = None
           THEN /\ pc' = "create_checkpoint"
                /\ old_state' = [devices |-> Devices, connections |-> live]
                /\ UNCHANGED result
           ELSE /\ pc' = "done"
                /\ result' = Some(read_err(r[1]))
                /\ UNCHANGED old_state
    /\ UNCHANGED <<actions, setters, guard, probe, product, attempts, last_op, tree, todo, network, live, checkpoint, order, idx, failed, errlog>>

-----------------------------------------------------------------------------
(* NetworkManagerAdapter::write *)

\* create_checkpoint().await.map_err(NetworkAdapterError::Checkpoint)?, then the
\* evaluation of ordered_connections(network) at the head of the for loop
CreateCheckpoint ==
    /\ pc = "create_checkpoint"
    /\ \E r \in Outcomes :
        /\ calls' = Append(calls, Call("create_checkpoint", 0, 0, None, r))
        /\ IF r = None
           THEN LET o == ordered_connections(network)
                IN  /\ checkpoint' = Some(CheckpointPath)
                    /\ order' = o.conns
                    /\ idx' = 1
                    /\ pc' = IF o.panicked THEN "panicked"
                             ELSE IF o.overflow THEN "overflow"
                             ELSE "loop"
                    /\ UNCHANGED result
           ELSE /\ pc' = "done"
                /\ result' = Some(checkpoint_err(r[1]))
                /\ UNCHANGED <<checkpoint, order, idx>>
    /\ UNCHANGED <<actions, setters, guard, probe, product, attempts, last_op, tree, todo, network, live, old_state, failed, errlog>>

\* no connection is ever taken as unchanged
is_unchanged_never(old, conn) == FALSE

\* if let Some(old_conn) = old_state.get_connection_by_uuid(conn.uuid)
\*     { if old_conn == conn { continue; } }
is_unchanged(old, conn) ==
    LET old_conn == get_connection_by_uuid(old, conn.uuid)
    IN  old_conn # None /\ Connection_eq(old.connections[old_conn[1]], conn)

\* the backend call write issues for a connection it does not skip
write_call(net, i, r) ==
    LET conn == net.connections[i]
        ctrl == IF conn.controller = None
                THEN None
                ELSE get_connection_by_uuid(net, conn.controller[1])
    IN  IF is_removed(conn)
        THEN Call("remove_connection", i, conn.uuid, None, r)
        ELSE Call("add_or_update_connection", i, conn.uuid, ctrl, r)

\* the failure of a connection write is ignored: the loop goes on
after_write_ignoring_failure(r) == "loop"

\* where write goes after the backend answered a connection write:
\* if let Err(e) = result { rollback ... return } else the next iteration
after_write(r) == IF r = None THEN "loop" ELSE "rollback"

\* a connection the backend has removed is dropped from the desired state
desired_after_write_purging(net, i, r) ==
    IF r = None /\ is_removed(net.connections[i])
    THEN [net EXCEPT !.connections =
              SubSeq(@, 1, i - 1) \o SubSeq(@, i + 1, Len(@))]
    ELSE net

\* write(&self, network: &NetworkState): the desired state is borrowed
\* immutably, a connection write leaves it as it is
desired_after_write(net, i, r) == net

\* one iteration of: for conn in ordered_connections(network)
ProcessConnection ==
    /\ pc = "loop"
    /\ idx <= Len(order)
    /\ LET i == order[idx]
           conn == network.connections[i]
       IN  IF ~is_writable(conn) \/ is_unchanged(old_state, conn)
           THEN /\ idx' = idx + 1
                /\ UNCHANGED <<pc, failed, calls, network>>
           ELSE \E r \in Outcomes :
                /\ calls' = Append(calls, write_call(network, i, r))
                /\ network' = desired_after_write(network, i, r)
                /\ pc' = after_write(r)
                /\ failed' = r
                /\ idx' = IF after_write(r) = "loop" THEN idx + 1 ELSE idx
    /\ UNCHANGED <<actions, setters, guard, probe, product, attempts, last_op, tree, todo, live, old_state, checkpoint, order, errlog, result>>

\* the failure of rollback_checkpoint is dropped
rollback_result_ignoring_failure(r, e) == write_err(e)

\* rollback_checkpoint(..).await.map_err(NetworkAdapterError::Checkpoint)?;
\* ...; return Err(NetworkAdapterError::Write(e))
rollback_result(r, e) == IF r = None THEN write_err(e) ELSE checkpoint_err(r[1])

\* rollback_checkpoint(&checkpoint).await.map_err(NetworkAdapterError::Checkpoint)?;
\* log::error!(...); return Err(NetworkAdapterError::Write(e))
RollbackCheckpoint ==
    /\ pc = "rollback"
    /\ \E r \in Outcomes :
        /\ calls' = Append(calls, Call("rollback_checkpoint", 0, 0, None, r))
        /\ IF r = None
           THEN /\ errlog' = Append(errlog,
                        [id |-> network.connections[order[idx]].id, cause |-> failed[1]])
           ELSE UNCHANGED errlog
        /\ result' = Some(rollback_result(r, failed[1]))
    /\ pc' = "done"
    /\ UNCHANGED <<actions, setters, guard, probe, product, attempts, last_op, tree, todo, network, live, old_state, checkpoint, order, idx, failed>>

\* the failure of destroy_checkpoint is dropped
destroy_result_ignoring_failure(r) == Ok

\* destroy_checkpoint(..).await.map_err(NetworkAdapterError::Checkpoint)?; Ok(())
destroy_result(r) == IF r = None THEN Ok ELSE checkpoint_err(r[1])

\* after the loop: destroy_checkpoint(&checkpoint).await
\*     .map_err(NetworkAdapterError::Checkpoint)?; Ok(())
DestroyCheckpoint ==
    /\ pc = "loop"
    /\ idx > Len(order)
    /\ \E r \in Outcomes :
        /\ calls' = Append(calls, Call("destroy_checkpoint", 0, 0, None, r))
        /\ result' = Some(destroy_result(r))
    /\ pc' = "done"
    /\ UNCHANGED <<actions, setters, guard, probe, product, attempts, last_op, tree, todo, network, live, old_state, checkpoint, order, idx, failed, errlog>>

Next ==
    \/ ReadDevices
    \/ ReadConnections
    \/ CreateCheckpoint
    \/ ProcessConnection
    \/ RollbackCheckpoint
    \/ DestroyCheckpoint

-----------------------------------------------------------------------------
(* Specifications *)

\* no State Registry operation has been applied
NoOp == [name |-> "none"]

\* HashMap::default()
EmptyMap == [k \in {} |-> 0]

\* no call of a D-Bus property setter is running
NoSetters == EmptyMap

\* Tree::new: objects is ObjectsRegistry::default(); server is the object
\* server of the D-Bus connection, the set of the interfaces that are on the
\* bus, each with its path
NoTree == [objects |-> [devices |-> EmptyMap, connections |-> EmptyMap],
           server  |-> {}]

\* write has just been called: nothing read, no checkpoint, no call issued
Started ==
    /\ pc = "read_devices"
    /\ old_state = [devices |-> <<>>, connections |-> <<>>]
    /\ checkpoint = None
    /\ order = <<>>
    /\ idx = 0
    /\ failed = None
    /\ calls = <<>>
    /\ errlog = <<>>
    /\ result = None
    /\ last_op = NoOp
    /\ tree = NoTree
    /\ todo = <<>>
    /\ attempts = 0
    /\ actions = <<>>
    /\ setters = NoSetters
    /\ guard = None
    /\ probe = FALSE
    /\ product = None

\* the variants write tells apart: Loopback, a controller, any other
WriteKinds == {"Ethernet", "Loopback", "Bond"}

\* write on any desired state of up to MaxConns connections, against any
\* backend content related to it
Init ==
    /\ \E n \in 1..MaxConns :
          network \in DesiredStates(n, WriteKinds, {"Up", "Removed"})
    /\ live \in LiveStates(network)
    /\ Started

Spec == Init /\ [][Next]_vars

\* write on desired states of up to MaxOrdConns connections, none of them in
\* the backend yet: the inputs of ordered_connections
InitOrd ==
    /\ \E n \in 1..MaxOrdConns :
          network \in DesiredStates(n, {"Ethernet", "Bond"}, {"Up"})
    /\ live = <<>>
    /\ Started

OrdSpec == InitOrd /\ [][Next]_vars

\* write on one desired connection of any variant against one backend
\* connection that differs from it in any set of fields: the inputs of the
\* equality that decides whether a write is needed
InitEq ==
    /\ network \in
         {[devices |-> <<>>,
           connections |-> <<Conn(k, IdOf(1), UuidOf(1), 0, st, None, 0, None, 0, cfg)>>] :
              k \in Kinds, st \in {"Up", "Removed"}, cfg \in {0}}
    /\ live \in
         {<<Conn(x.kind, x.id, x.uuid, x.ip, "Up", x.ctrl, x.mac, x.iface, x.mc, x.cfg)>> :
              x \in {y \in [kind : Kinds, id : {IdOf(1), IdOf(2)},
                            uuid : {UuidOf(1), UuidOf(2)}, ip : {0, 1},
                            ctrl : {None, Some(UuidOf(2))}, mac : {0, 1},
                            iface : {None, Some("eth0")}, mc : {0, 1}, cfg : {0, 1}] :
                        HasConfig(y.kind) \/ y.cfg = 0}}
    /\ Started

EqSpec == InitEq /\ [][Next]_vars

-----------------------------------------------------------------------------
(* Vocabulary of the properties *)

ConnOps == {"add_or_update_connection", "remove_connection"}

\* the positions in calls of the calls of the given operations
CallsOf(ops) == {k \in DOMAIN calls : calls[k].op \in ops}

\* how often an operation was invoked
Count(op) == Cardinality(CallsOf({op}))

\* the positions of the failed calls of the given operations
FailedCalls(ops) == {k \in CallsOf(ops) : calls[k].err # None}

Returned == pc = "done" /\ result # None

\* a connection write failed and the rollback that followed succeeded
WriteFailedRolledBack ==
    /\ Returned
    /\ FailedCalls(ConnOps) # {}
    /\ CallsOf({"rollback_checkpoint"}) # {}
    /\ FailedCalls({"rollback_checkpoint"}) = {}

\* the error value carries the id of a connection
ErrorNamesConnection(res, id) == "id" \in DOMAIN res /\ res.id = id

\* what C1 says of the calls: one rollback, no destroy, and nothing issued for
\* a later connection (the failed write is the last connection write)
FailFastCalls ==
    \A k \in FailedCalls(ConnOps) :
        /\ Count("rollback_checkpoint") = 1
        /\ Count("destroy_checkpoint") = 0
        /\ \A j \in CallsOf(ConnOps) : j <= k
        /\ idx <= Len(order) /\ calls[k].conn = order[idx]
        /\ \A p \in (idx + 1)..Len(order) :
               \A j \in CallsOf(ConnOps) : calls[j].conn # order[p]

-----------------------------------------------------------------------------
(* Properties *)

C2_ExactlyOneCheckpointEnd ==
    (Returned /\ checkpoint # None) =>
        /\ Count("destroy_checkpoint") + Count("rollback_checkpoint") = 1
        /\ Count("destroy_checkpoint") = 1 => FailedCalls(ConnOps) = {}
        /\ Count("rollback_checkpoint") = 1 => FailedCalls(ConnOps) # {}

\* a write that had written one connection when the next one failed
C2_Witness ==
    /\ Returned /\ checkpoint # None
    /\ Count("rollback_checkpoint") = 1
    /\ \E k \in CallsOf(ConnOps) : calls[k].err = None

\* the position of connection i in the ordered list (0 if it is not in it)
PosIn(ord, i) ==
    IF \E p \in DOMAIN ord : ord[p] = i
    THEN Min({p \in DOMAIN ord : ord[p] = i})
    ELSE 0

\* write has computed the order
Ordered == checkpoint # None /\ pc \notin {"panicked", "overflow"}

\* C3: for a desired state whose controller references resolve without a
\* cycle, ordered_connections lists every connection exactly once and every
\* controller before each of its ports, whatever the order of the input.
C3_OrderedConnections ==
    Ordered =>
        /\ Len(order) = Len(network.connections)
        /\ \A i \in DOMAIN network.connections :
               /\ Cardinality({p \in DOMAIN order : order[p] = i}) = 1
               /\ \A j \in DOMAIN network.connections :
                      network.connections[i].controller
                          = Some(network.connections[j].uuid)
                      => PosIn(order, j) < PosIn(order, i)

\* two ports that precede their common controller in the input
C3_Witness ==
    /\ Ordered
    /\ Len(network.connections) = 3
    /\ network.connections[1].controller = Some(UuidOf(3))
    /\ network.connections[2].controller = Some(UuidOf(3))
    /\ order = <<3, 1, 2>>

\* C4: in a successful write the backend calls are: the read of the live
\* state, create_checkpoint, the connection writes, destroy_checkpoint last;
\* and the write of a controller precedes the write of each of its ports.
C4_CallOrder ==
    (Returned /\ result = Some(Ok)) =>
        /\ Len(calls) >= 4
        /\ calls[1].op = "devices" /\ calls[2].op = "connections"
        /\ calls[3].op = "create_checkpoint"
        /\ calls[Len(calls)].op = "destroy_checkpoint"
        /\ \A k \in 4..(Len(calls) - 1) : calls[k].op \in ConnOps
        /\ \A a, b \in CallsOf(ConnOps) :
               network.connections[calls[b].conn].controller = Some(calls[a].uuid)
               => a < b

\* the desired state [bond0, eth1 with controller bond0] against an empty
\* backend: bond0 is written, then eth1, then the checkpoint is destroyed
C4_Witness ==
    /\ Returned /\ result = Some(Ok)
    /\ live = <<>>
    /\ Len(network.connections) = 2
    /\ network.connections[1].kind = "Bond"
    /\ network.connections[2].kind = "Ethernet"
    /\ network.connections[2].controller = Some(network.connections[1].uuid)
    /\ calls[4].op = "add_or_update_connection" /\ calls[4].conn = 1
    /\ calls[5].op = "add_or_update_connection" /\ calls[5].conn = 2
    /\ calls[5].ctrl = Some(1)
    /\ calls[6].op = "destroy_checkpoint"

\* write has dealt with connection i: the loop has passed it, or stopped at
\* it because its backend call failed
Reached(i) ==
    /\ Ordered
    /\ PosIn(order, i) # 0
    /\ \/ PosIn(order, i) < idx
       \/ PosIn(order, i) = idx /\ failed # None

\* the backend held a connection with this uuid when write started
InLive(conn) == \E l \in DOMAIN live : live[l].uuid = conn.uuid

\* C5 as stated: for every writable connection of the desired state that is
\* Removed and exists in the backend, a write that reaches it issues
\* remove_connection with its uuid and no add_or_update_connection for it,
\* also when it is otherwise identical to the backend's connection.
C5_RemovedIsRemoved ==
    \A i \in DOMAIN network.connections :
        LET conn == network.connections[i]
        IN  (conn.kind # "Loopback" /\ conn.status = "Removed"
                /\ InLive(conn) /\ Reached(i))
            => /\ \E k \in CallsOf({"remove_connection"}) : calls[k].uuid = conn.uuid
               /\ \A k \in CallsOf({"add_or_update_connection"}) : calls[k].conn # i

\* the backend held, when write started, a connection with the same uuid that
\* is equal to this one
LiveEqual(conn) ==
    \E l \in DOMAIN live : live[l].uuid = conn.uuid /\ Connection_eq(live[l], conn)

AgreeOnThree(a, b) ==
    a.id = b.id /\ a.uuid = b.uuid /\ a.ip_config = b.ip_config

AgreeOnCompared(a, b) ==
    /\ a.kind = b.kind
    /\ AgreeOnThree(a, b)
    /\ (a.kind \in {"Wireless", "Bond"} => a.config = b.config)

C8_LoopbackNeverWritten ==
    \A k \in CallsOf(ConnOps) :
        \A i \in DOMAIN network.connections :
            network.connections[i].kind = "Loopback"
            => calls[k].conn # i /\ calls[k].uuid # network.connections[i].uuid

\* a Removed Loopback whose IP configuration differs from the backend's, in a
\* write that went through
C8_Witness ==
    /\ Returned /\ result = Some(Ok)
    /\ \E i \in DOMAIN network.connections :
           /\ network.connections[i].kind = "Loopback"
           /\ network.connections[i].status = "Removed"
           /\ InLive(network.connections[i])
           /\ ~LiveEqual(network.connections[i])

\* C9: if create_checkpoint fails, write returns a Checkpoint error and has
\* issued no add_or_update_connection, remove_connection, rollback_checkpoint
\* or destroy_checkpoint call.
C9_CheckpointNotCreated ==
    \A k \in FailedCalls({"create_checkpoint"}) :
        /\ Returned
        /\ result = Some(Err("Checkpoint", calls[k].err[1]))
        /\ CallsOf(ConnOps \cup {"rollback_checkpoint", "destroy_checkpoint"}) = {}

\* create_checkpoint failed while a connection was waiting to be written
C9_Witness ==
    /\ FailedCalls({"create_checkpoint"}) # {}
    /\ \E i \in DOMAIN network.connections :
           /\ network.connections[i].kind # "Loopback"
           /\ ~LiveEqual(network.connections[i])

\* C10: if reading the live state fails at the start of write (devices() or
\* connections() fails), write returns a Read error, creates no checkpoint and
\* issues no connection write.
C10_ReadFailure ==
    \A k \in FailedCalls({"devices", "connections"}) :
        /\ Returned
        /\ result = Some(Err("Read", calls[k].err[1]))
        /\ checkpoint = None
        /\ CallsOf(ConnOps \cup {"create_checkpoint", "rollback_checkpoint",
                              "destroy_checkpoint"}) = {}

\* devices() answered and connections() failed
C10_Witness ==
    /\ Len(calls) = 2
    /\ calls[1].op = "devices" /\ calls[1].err = None
    /\ calls[2].op = "connections" /\ calls[2].err # None

\* C11: if every connection write succeeds and destroy_checkpoint then fails,
\* write returns a Checkpoint error (not Ok, not a Write error),
\* rollback_checkpoint is not invoked, and all the connection writes of the
\* call remain issued.
C11_DestroyFailure ==
    \A k \in FailedCalls({"destroy_checkpoint"}) :
        /\ Returned
        /\ result = Some(Err("Checkpoint", calls[k].err[1]))
        /\ Count("rollback_checkpoint") = 0
        /\ FailedCalls(ConnOps) = {}
        /\ \A i \in DOMAIN network.connections :
               (network.connections[i].kind # "Loopback"
                    /\ ~LiveEqual(network.connections[i]))
               => \E j \in CallsOf(ConnOps) :
                      j < k /\ calls[j].conn = i /\ calls[j].err = None

\* two connections were written and destroy_checkpoint failed
C11_Witness ==
    /\ FailedCalls({"destroy_checkpoint"}) # {}
    /\ Cardinality(CallsOf(ConnOps)) = 2

\* C12: whenever a connection's backend write fails, a rollback is attempted
\* before write returns, and the error write returns reports that write
\* failure (a Write error with its cause; the connection is named in the
\* error log), whether the rollback succeeds or fails.
C12_WriteFailureNeverLost ==
    (Returned /\ FailedCalls(ConnOps) # {}) =>
        /\ Count("rollback_checkpoint") = 1
        /\ \A k \in FailedCalls(ConnOps) :
               /\ result = Some(Err("Write", calls[k].err[1]))
               /\ errlog = <<[id |-> network.connections[calls[k].conn].id,
                              cause |-> calls[k].err[1]]>>

\* C33: when a connection write fails and the rollback_checkpoint that
\* follows fails too, write returns the failed rollback as a Checkpoint
\* error, which is not the Write error it returns when the rollback
\* succeeds, and destroy_checkpoint is not invoked.
C33_FailedRollbackReported ==
    (Returned /\ FailedCalls(ConnOps) # {}) =>
        /\ Count("destroy_checkpoint") = 0
        /\ \A k \in CallsOf({"rollback_checkpoint"}) :
               /\ calls[k].err # None =>
                      /\ result = Some(Err("Checkpoint", calls[k].err[1]))
                      /\ result[1].kind # "Write"
               /\ calls[k].err = None => result[1].kind = "Write"

\* the second connection's write failed after the first was written, and
\* the rollback failed with another cause
C33_Witness ==
    /\ Returned
    /\ Cardinality(CallsOf(ConnOps)) = 2
    /\ \E k \in FailedCalls(ConnOps), j \in FailedCalls({"rollback_checkpoint"}) :
           calls[k].err # calls[j].err

-----------------------------------------------------------------------------
(* model.rs: the State Registry (NetworkState) *)

\* Iterator::find over the connection list: the first position that matches
First(hits) == IF hits = {} THEN None ELSE Some(Min(hits))

\* NetworkState::get_connection_by_interface
get_connection_by_interface(state, name) ==
    First({i \in DOMAIN state.connections :
              state.connections[i].interface = Some(name)})

\* NetworkState::get_connection and get_connection_mut
get_connection(state, id) ==
    First({i \in DOMAIN state.connections : state.connections[i].id = id})

\* the existence test looks at the uuid, not at the id
exists_by_uuid(state, conn) == get_connection_by_uuid(state, conn.uuid) # None

\* nothing is ever taken to exist
exists_never(state, conn) == FALSE

\* the test add_connection rejects a connection on
exists(state, conn) == get_connection(state, conn.id) # None

\* NetworkState::add_connection
add_connection(state, conn) ==
    IF exists(state, conn)
    THEN [state |-> state, result |-> Err("ConnectionExists", conn.uuid)]
    ELSE [state |-> [state EXCEPT !.connections = Append(@, conn)],
          result |-> Ok]

\* the replacement keeps the uuid of the entry it replaces
replace_keeping_uuid(old_conn, conn) == [conn EXCEPT !.uuid = old_conn.uuid]

\* *old_conn = conn
replace(old_conn, conn) == conn

\* an unknown connection is added instead of rejected
unknown_connection_added(state, conn) ==
    [state |-> [state EXCEPT !.connections = Append(@, conn)], result |-> Ok]

\* the else branch of update_connection's let
unknown_connection(state, conn) ==
    [state |-> state, result |-> Err("UnknownConnection", conn.id)]

\* NetworkState::update_connection
update_connection(state, conn) ==
    LET old_conn == get_connection(state, conn.id)
    IN  IF old_conn = None
        THEN unknown_connection(state, conn)
        ELSE [state |-> [state EXCEPT !.connections[old_conn[1]] =
                                          replace(@, conn)],
              result |-> Ok]

\* the status becomes Down instead of Removed
remove_as_down(conn) == [conn EXCEPT !.status = "Down"]

\* removing a removed connection brings it back
remove_toggling(conn) ==
    [conn EXCEPT !.status = IF @ = "Removed" THEN "Up" ELSE "Removed"]

\* Connection::remove
remove(conn) == [conn EXCEPT !.status = "Removed"]

\* an unknown id is taken as removed
unknown_id_ignored(state, id) == [state |-> state, result |-> Ok]

\* the else branch of remove_connection's let
unknown_id(state, id) ==
    [state |-> state, result |-> Err("UnknownConnection", id)]

\* NetworkState::remove_connection
remove_connection(state, id) ==
    LET conn == get_connection(state, id)
    IN  IF conn = None
        THEN unknown_id(state, id)
        ELSE [state |-> [state EXCEPT !.connections[conn[1]] = remove(@)],
              result |-> Ok]

\* Connection::set_controller and unset_controller
set_controller(conn, controller) == [conn EXCEPT !.controller = Some(controller)]
unset_controller(conn) == [conn EXCEPT !.controller = None]

\* the id is tried first, then the interface name
resolve_id_first(state, port) ==
    LET by_id == get_connection(state, port)
    IN  IF by_id # None THEN by_id ELSE get_connection_by_interface(state, port)

\* the connection a port name stands for: the interface name is tried first,
\* then the id
resolve(state, port) ==
    LET by_interface == get_connection_by_interface(state, port)
    IN  IF by_interface # None THEN by_interface ELSE get_connection(state, port)

\* the first loop of set_ports: the uuids of the ports, in `controlled`; it
\* stops at the first name that does not resolve
RECURSIVE resolve_ports(_, _, _)
resolve_ports(state, ports, controlled) ==
    IF ports = <<>> THEN [ok |-> TRUE, controlled |-> controlled]
    ELSE LET connection == resolve(state, Head(ports))
         IN  IF connection = None
             THEN [ok |-> FALSE, port |-> Head(ports), controlled |-> controlled]
             ELSE resolve_ports(state, Tail(ports),
                      Append(controlled, state.connections[connection[1]].uuid))

\* controlled.contains(&uuid)
contains(controlled, uuid) == \E k \in DOMAIN controlled : controlled[k] = uuid

\* the ports are added to the ones the controller has
assign_ports_merging(state, controller, controlled) ==
    [state EXCEPT !.connections =
        [i \in DOMAIN state.connections |->
            LET conn == state.connections[i]
            IN  IF contains(controlled, conn.uuid)
                THEN set_controller(conn, controller.uuid)
                ELSE conn]]

\* the second loop of set_ports
assign_ports(state, controller, controlled) ==
    [state EXCEPT !.connections =
        [i \in DOMAIN state.connections |->
            LET conn == state.connections[i]
            IN  IF contains(controlled, conn.uuid)
                THEN set_controller(conn, controller.uuid)
                ELSE IF conn.controller = Some(controller.uuid)
                THEN unset_controller(conn)
                ELSE conn]]

\* the ports that resolved before the unknown one are assigned
set_bond_ports_partially(state, controller, ports) ==
    LET r == resolve_ports(state, ports, <<>>)
    IN  [state |-> assign_ports(state, controller, r.controlled),
         result |-> IF r.ok THEN Ok ELSE Err("UnknownConnection", r.port)]

\* set_ports on a Bond
set_bond_ports(state, controller, ports) ==
    LET r == resolve_ports(state, ports, <<>>)
    IN  IF r.ok
        THEN [state |-> assign_ports(state, controller, r.controlled),
              result |-> Ok]
        ELSE [state |-> state, result |-> Err("UnknownConnection", r.port)]

\* every variant is taken as a controller
set_ports_of_any_variant(state, controller, ports) ==
    set_bond_ports(state, controller, ports)

\* NetworkState::set_ports
set_ports(state, controller, ports) ==
    IF controller.kind = "Bond"
    THEN set_bond_ports(state, controller, ports)
    ELSE [state |-> state,
          result |-> Err("NotControllerConnection", controller.id)]

-----------------------------------------------------------------------------
(* The State Registry as a state machine: operations applied one after the
   other to a State that starts empty *)

\* a second uuid for the connection id i: a connection created again under
\* the same id gets a new uuid (Uuid::new_v4), which no other connection has
NewUuidOf(i) == 200 + i

\* interfaces are named like the ids: an Ethernet connection i is bound to
\* no interface or to the one named like the next connection, a Bond to none
InterfacesOf(kind, i) ==
    IF kind = "Bond" THEN {None}
    ELSE {None, Some(IdOf((i % MaxRegConns) + 1))}

\* the connections add_connection and update_connection are called with:
\* built outside the State, up and without controller
ConnectionsOf(i) ==
    UNION {{Conn(kind, IdOf(i), uuid, 0, "Up", None, 0, iface, 0, 0) :
               uuid \in {UuidOf(i), NewUuidOf(i)},
               iface \in InterfacesOf(kind, i)} :
           kind \in {"Ethernet", "Bond"}}

Connections == UNION {ConnectionsOf(i) : i \in 1..MaxRegConns}

\* the controllers set_ports is called with: of a controller it reads the
\* variant, the uuid and the id, so the ones without interface do
Controllers == {conn \in Connections : conn.interface = None}

\* the names in a port list: 0 is the name of no connection or interface
PortNames == {0} \cup {IdOf(i) : i \in 1..MaxRegConns}

\* the port lists set_ports is called with: no name twice
PortLists ==
    UNION {{ports \in [1..n -> PortNames] :
               \A j, k \in 1..n : ports[j] = ports[k] => j = k} :
           n \in 0..MaxRegConns}

\* the State Registry variables; write's are not touched
InitReg ==
    /\ network = [devices |-> <<>>, connections |-> <<>>]
    /\ live = <<>>
    /\ pc = "registry"
    /\ old_state = [devices |-> <<>>, connections |-> <<>>]
    /\ checkpoint = None
    /\ order = <<>>
    /\ idx = 0
    /\ failed = None
    /\ calls = <<>>
    /\ errlog = <<>>
    /\ result = None
    /\ last_op = NoOp
    /\ tree = NoTree
    /\ todo = <<>>
    /\ attempts = 0
    /\ actions = <<>>
    /\ setters = NoSetters
    /\ guard = None
    /\ probe = FALSE
    /\ product = None

\* one operation on the State: r is what it returned and the State it left;
\* last_op keeps the call until its caller has taken the result
Applied(name, conn, id, ports, r) ==
    /\ pc = "registry"
    /\ pc' = "applied"
    /\ network' = r.state
    /\ last_op' = [name |-> name, conn |-> conn, id |-> id, ports |-> ports,
                   result |-> r.result, before |-> network.connections]
    /\ UNCHANGED <<actions, setters, guard, probe, product, attempts, tree, todo, live, old_state, checkpoint, order, idx, failed, calls,
                   errlog, result>>

AddConnection ==
    \E conn \in Connections :
        Applied("add_connection", conn, conn.id, <<>>,
                add_connection(network, conn))

UpdateConnection ==
    \E conn \in Connections :
        Applied("update_connection", conn, conn.id, <<>>,
                update_connection(network, conn))

RemoveConnection ==
    \E i \in 1..MaxRegConns :
        Applied("remove_connection", None, IdOf(i), <<>>,
                remove_connection(network, IdOf(i)))

SetPorts ==
    \E controller \in Controllers, ports \in PortLists :
        Applied("set_ports", controller, controller.id, ports,
                set_ports(network, controller, ports))

\* the caller takes the result; the State is ready for the next operation
TakeResult ==
    /\ pc = "applied"
    /\ pc' = "registry"
    /\ last_op' = NoOp
    /\ UNCHANGED <<actions, setters, guard, probe, product, attempts, tree, todo, network, live, old_state, checkpoint, order, idx, failed,
                   calls, errlog, result>>

NextReg ==
    \/ TakeResult
    \/ AddConnection
    \/ UpdateConnection
    \/ RemoveConnection
    \/ SetPorts

RegSpec == InitReg /\ [][NextReg]_vars

-----------------------------------------------------------------------------
(* Properties of the State Registry *)

\* the operation `name` has just been applied
Called(name) == pc = "applied" /\ last_op.name = name

\* the operation failed with this error
FailedWith(kind) == ~last_op.result.ok /\ last_op.result.kind = kind

\* the positions of the connections with this id, before the operation
BeforeWithId(id) == {i \in DOMAIN last_op.before : last_op.before[i].id = id}

\* the name is the interface or the id of a connection, before the operation
Matched(name) ==
    \E i \in DOMAIN last_op.before :
        \/ last_op.before[i].interface = Some(name)
        \/ last_op.before[i].id = name

\* the operation left every connection's controller as it was
SameControllers ==
    /\ DOMAIN network.connections = DOMAIN last_op.before
    /\ \A i \in DOMAIN last_op.before :
           network.connections[i].controller = last_op.before[i].controller

\* C13: add_connection of a connection whose id is the id of a connection
\* already in the State fails with ConnectionExists, also when the two uuids
\* differ, and leaves the connection list unchanged.
C13_AddExistingId ==
    (Called("add_connection") /\ BeforeWithId(last_op.id) # {}) =>
        /\ FailedWith("ConnectionExists")
        /\ network.connections = last_op.before

\* a connection was added under an id in use, with another uuid
C13_Witness ==
    /\ Called("add_connection")
    /\ \E i \in BeforeWithId(last_op.id) :
           last_op.before[i].uuid # last_op.conn.uuid
    /\ FailedWith("ConnectionExists")

\* C14: in every State reached from the empty one by add_connection,
\* update_connection, remove_connection and set_ports, no two connections
\* that are not removed have the same id.
C14_UniqueIds ==
    \A i, j \in DOMAIN network.connections :
        (/\ ~is_removed(network.connections[i])
         /\ ~is_removed(network.connections[j])
         /\ network.connections[i].id = network.connections[j].id) => i = j

\* add_connection was refused in a State of two connections, one of them
\* replaced before
C14_Witness ==
    /\ Called("add_connection")
    /\ ~last_op.result.ok
    /\ Len(network.connections) = 2
    /\ \E i \in DOMAIN network.connections :
           network.connections[i].uuid = NewUuidOf(i)
    /\ \A i \in DOMAIN network.connections : ~is_removed(network.connections[i])

\* C15: in every State reached from the empty one by add_connection,
\* update_connection, remove_connection and set_ports, every connection
\* whose controller is set references the uuid of a Bond that is in the State.
C15_ControllersAreBonds ==
    \A i \in DOMAIN network.connections :
        network.connections[i].controller # None =>
            \E j \in DOMAIN network.connections :
                /\ network.connections[j].kind = "Bond"
                /\ Some(network.connections[j].uuid) = network.connections[i].controller

\* C16: after a successful set_ports(controller, ports) on a Bond, the
\* connections whose controller is the controller's uuid are exactly the
\* connections the port names resolved to (replaced, not merged), and a
\* connection that pointed at another controller and is not in the list
\* keeps its controller.
C16_PortsReplaced ==
    (Called("set_ports") /\ last_op.conn.kind = "Bond" /\ last_op.result.ok) =>
        LET before   == [devices |-> <<>>, connections |-> last_op.before]
            resolved == {resolve(before, last_op.ports[k])[1] :
                            k \in DOMAIN last_op.ports}
            uuid     == Some(last_op.conn.uuid)
        IN  /\ DOMAIN network.connections = DOMAIN last_op.before
            /\ \A i \in DOMAIN network.connections :
                   /\ network.connections[i].controller = uuid <=> i \in resolved
                   /\ (i \notin resolved /\ last_op.before[i].controller # uuid)
                      => network.connections[i].controller =
                             last_op.before[i].controller

\* set_ports gave the controller a port and took another one from it
C16_Witness ==
    /\ Called("set_ports")
    /\ last_op.result.ok
    /\ \E i, j \in DOMAIN last_op.before :
           /\ last_op.before[i].controller = Some(last_op.conn.uuid)
           /\ network.connections[i].controller = None
           /\ last_op.before[j].controller = None
           /\ network.connections[j].controller = Some(last_op.conn.uuid)

\* C17: set_ports with a controller that is not a Bond fails with
\* NotControllerConnection for every port list and leaves every
\* connection's controller unchanged.
C17_NotController ==
    (Called("set_ports") /\ last_op.conn.kind # "Bond") =>
        /\ FailedWith("NotControllerConnection")
        /\ SameControllers

\* set_ports was called with an Ethernet controller and a list of two names
\* that both resolve
C17_Witness ==
    /\ Called("set_ports")
    /\ last_op.conn.kind = "Ethernet"
    /\ Len(last_op.ports) = 2
    /\ \A k \in DOMAIN last_op.ports : Matched(last_op.ports[k])
    /\ FailedWith("NotControllerConnection")

\* C18: set_ports on a Bond with a port list in which some name is neither
\* the interface nor the id of a connection in the State fails with
\* UnknownConnection and changes no connection's controller, also when
\* names earlier in the list resolved.
C18_UnknownPort ==
    (/\ Called("set_ports")
     /\ last_op.conn.kind = "Bond"
     /\ \E k \in DOMAIN last_op.ports : ~Matched(last_op.ports[k])) =>
        /\ FailedWith("UnknownConnection")
        /\ SameControllers

\* the first name of the list resolved to a connection that is no port of
\* the controller, the second name is unknown
C18_Witness ==
    /\ Called("set_ports")
    /\ last_op.conn.kind = "Bond"
    /\ Len(last_op.ports) = 2
    /\ Matched(last_op.ports[1])
    /\ ~Matched(last_op.ports[2])
    /\ \A i \in DOMAIN last_op.before :
           last_op.before[i].controller # Some(last_op.conn.uuid)
    /\ FailedWith("UnknownConnection")

\* C19: update_connection with a connection whose id is the id of no
\* connection in the State fails with UnknownConnection and leaves the State
\* unchanged.
C19_UpdateUnknown ==
    (Called("update_connection") /\ BeforeWithId(last_op.id) = {}) =>
        /\ FailedWith("UnknownConnection")
        /\ network.connections = last_op.before

\* update_connection was called with an unknown id on a State that is not
\* empty
C19_Witness ==
    /\ Called("update_connection")
    /\ BeforeWithId(last_op.id) = {}
    /\ last_op.before # <<>>
    /\ FailedWith("UnknownConnection")

\* C20: update_connection with a connection whose id is the id of a
\* connection in the State replaces exactly that entry by the given
\* connection in full, keeps the number and the positions of the
\* connections and leaves the others unchanged; get_connection(id) then
\* returns the replacement.
C20_UpdateReplaces ==
    (Called("update_connection") /\ BeforeWithId(last_op.id) # {}) =>
        /\ last_op.result.ok
        /\ Cardinality(BeforeWithId(last_op.id)) = 1
        /\ DOMAIN network.connections = DOMAIN last_op.before
        /\ \A i \in DOMAIN last_op.before :
               network.connections[i] =
                   IF i \in BeforeWithId(last_op.id) THEN last_op.conn
                   ELSE last_op.before[i]
        /\ get_connection(network, last_op.id) # None
        /\ network.connections[get_connection(network, last_op.id)[1]] = last_op.conn

\* the second of two connections, a removed port, was replaced by a
\* connection of another variant and another uuid
C20_Witness ==
    /\ Called("update_connection")
    /\ Len(last_op.before) = 2
    /\ BeforeWithId(last_op.id) = {2}
    /\ last_op.before[2].uuid # last_op.conn.uuid
    /\ last_op.before[2].kind # last_op.conn.kind
    /\ last_op.before[2].status = "Removed"
    /\ last_op.before[2].controller # None
    /\ network.connections[2] = last_op.conn

\* C21: after remove_connection(id) on an existing id the connection is
\* still in the State (get_connection and get_connection_by_uuid return it),
\* its status is Removed, the number of connections is unchanged and every
\* other connection is unchanged.
C21_SoftDelete ==
    (Called("remove_connection") /\ BeforeWithId(last_op.id) # {}) =>
        /\ last_op.result.ok
        /\ DOMAIN network.connections = DOMAIN last_op.before
        /\ \A i \in DOMAIN last_op.before :
               IF i \in BeforeWithId(last_op.id)
               THEN /\ network.connections[i] =
                           [last_op.before[i] EXCEPT !.status = "Removed"]
                    /\ is_removed(network.connections[i])
                    /\ get_connection(network, last_op.id) = Some(i)
                    /\ get_connection_by_uuid(network, last_op.before[i].uuid) = Some(i)
               ELSE network.connections[i] = last_op.before[i]

\* the second of two connections, up and a port, was removed
C21_Witness ==
    /\ Called("remove_connection")
    /\ Len(last_op.before) = 2
    /\ BeforeWithId(last_op.id) = {2}
    /\ last_op.before[2].status = "Up"
    /\ last_op.before[2].controller # None
    /\ is_removed(network.connections[2])

\* C22: remove_connection(id) for an id that is the id of no connection in
\* the State fails with UnknownConnection and leaves the State unchanged.
C22_RemoveUnknown ==
    (Called("remove_connection") /\ BeforeWithId(last_op.id) = {}) =>
        /\ FailedWith("UnknownConnection")
        /\ last_op.result.cause = last_op.id
        /\ network.connections = last_op.before

\* remove_connection was called with an unknown id on a State that is not
\* empty
C22_Witness ==
    /\ Called("remove_connection")
    /\ BeforeWithId(last_op.id) = {}
    /\ last_op.before # <<>>
    /\ FailedWith("UnknownConnection")

\* C23: removal is idempotent: remove() on a removed connection gives the
\* same connection, and remove_connection(id) on a removed connection
\* succeeds and leaves the State as the first removal left it.
C23_RemoveIdempotent ==
    /\ \A i \in DOMAIN network.connections :
           remove(remove(network.connections[i])) = remove(network.connections[i])
    /\ (/\ Called("remove_connection")
        /\ \E i \in BeforeWithId(last_op.id) : is_removed(last_op.before[i])) =>
           /\ last_op.result.ok
           /\ network.connections = last_op.before

\* remove_connection was applied to a connection that was removed before
C23_Witness ==
    /\ Called("remove_connection")
    /\ \E i \in BeforeWithId(last_op.id) : is_removed(last_op.before[i])
    /\ last_op.result.ok

\* the first connection with that interface name, before the operation
FirstWithInterface(name) ==
    First({i \in DOMAIN last_op.before : last_op.before[i].interface = Some(name)})

\* C38: set_ports resolves each port name against the interface names first
\* and against the ids only when no connection has that interface name: when
\* a name is the interface of connection A and the id of connection B, A
\* becomes the port, and B's controller is not set (unless another name of
\* the list is B's interface).
C38_InterfaceFirst ==
    (Called("set_ports") /\ last_op.conn.kind = "Bond" /\ last_op.result.ok) =>
        \A k \in DOMAIN last_op.ports :
            LET name == last_op.ports[k]
                A    == FirstWithInterface(name)
                uuid == Some(last_op.conn.uuid)
            IN  A # None =>
                    /\ network.connections[A[1]].controller = uuid
                    /\ \A B \in BeforeWithId(name) \ {A[1]} :
                           (\A j \in DOMAIN last_op.ports :
                                FirstWithInterface(last_op.ports[j]) # Some(B))
                           => network.connections[B].controller # uuid

\* the one name of the list is the interface of the first connection and
\* the id of the second, which was a port of the controller and is none now
C38_Witness ==
    /\ Called("set_ports")
    /\ last_op.result.ok
    /\ Len(last_op.ports) = 1
    /\ Len(last_op.before) = 2
    /\ last_op.before[1].interface = Some(last_op.ports[1])
    /\ last_op.before[2].id = last_op.ports[1]
    /\ last_op.before[2].controller = Some(last_op.conn.uuid)
    /\ network.connections[1].controller = Some(last_op.conn.uuid)
    /\ network.connections[2].controller = None

\* C32: once remove_connection has marked a connection Removed, every later
\* add_connection, update_connection, remove_connection and set_ports leaves
\* a connection with that id in status Removed in the State: no operation
\* drops it or brings it back to Up or Down.
C32_RemovedStays ==
    pc = "applied" =>
        \A i \in DOMAIN last_op.before :
            is_removed(last_op.before[i]) =>
                \E j \in DOMAIN network.connections :
                    /\ network.connections[j].id = last_op.before[i].id
                    /\ is_removed(network.connections[j])

-----------------------------------------------------------------------------
(* tree.rs: the ObjectsRegistry *)

\* the entry is kept when the key is there already
insert_if_absent(map, key, value) ==
    [k \in DOMAIN map \cup {key} |-> IF k \in DOMAIN map THEN map[k] ELSE value]

\* HashMap::insert
insert(map, key, value) ==
    [k \in DOMAIN map \cup {key} |-> IF k = key THEN value ELSE map[k]]

\* HashMap::get
get(map, key) == IF key \in DOMAIN map THEN Some(map[key]) ELSE None

\* HashMap::remove: the map without the key and the value it had
without(map, key) == [k \in DOMAIN map \ {key} |-> map[k]]

\* ObjectsRegistry::register_connection
register_connection(objects, uuid, path) ==
    [objects EXCEPT !.connections = insert(@, uuid, path)]

\* ObjectsRegistry::connection_path
connection_path(objects, uuid) == get(objects.connections, uuid)

\* ObjectsRegistry::deregister_connection
deregister_connection(objects, uuid) ==
    [objects |-> [objects EXCEPT !.connections = without(@, uuid)],
     result  |-> get(objects.connections, uuid)]

\* the orders HashMap::values can go through the entries in: every order of
\* the keys
Orders(map) ==
    {keys \in [1..Cardinality(DOMAIN map) -> DOMAIN map] :
        \A j, k \in DOMAIN keys : keys[j] = keys[k] => j = k}

\* ObjectsRegistry::connections_paths, the entries taken in the order keys
connections_paths(objects, keys) ==
    [k \in DOMAIN keys |-> objects.connections[keys[k]]]

\* the uuids and the object paths the registry is called with (the Tree's
\* paths end in a number)
TreeUuids == {UuidOf(i) : i \in 1..MaxTreeConns}
TreePaths == 0..MaxTreeConns

InitObj ==
    /\ network = [devices |-> <<>>, connections |-> <<>>]
    /\ live = <<>>
    /\ pc = "objects"
    /\ old_state = [devices |-> <<>>, connections |-> <<>>]
    /\ checkpoint = None
    /\ order = <<>>
    /\ idx = 0
    /\ failed = None
    /\ calls = <<>>
    /\ errlog = <<>>
    /\ result = None
    /\ last_op = NoOp
    /\ tree = NoTree
    /\ todo = <<>>
    /\ attempts = 0
    /\ actions = <<>>
    /\ setters = NoSetters
    /\ guard = None
    /\ probe = FALSE
    /\ product = None

\* one operation on the registry: what it returned and the registry it left
OnObjects(name, uuid, path, objects, r) ==
    /\ pc = "objects"
    /\ tree' = [tree EXCEPT !.objects = objects]
    /\ last_op' = [name |-> name, uuid |-> uuid, path |-> path, result |-> r,
                   before |-> tree.objects.connections]
    /\ UNCHANGED <<actions, setters, guard, probe, product, attempts, network, live, pc, old_state, checkpoint, order, idx, failed,
                   calls, errlog, result, todo>>

RegisterConnection ==
    \E uuid \in TreeUuids, path \in TreePaths :
        OnObjects("register_connection", uuid, path,
                  register_connection(tree.objects, uuid, path), None)

ConnectionPath ==
    \E uuid \in TreeUuids :
        OnObjects("connection_path", uuid, 0, tree.objects,
                  connection_path(tree.objects, uuid))

DeregisterConnection ==
    \E uuid \in TreeUuids :
        LET r == deregister_connection(tree.objects, uuid)
        IN  OnObjects("deregister_connection", uuid, 0, r.objects, r.result)

ConnectionsPaths ==
    \E keys \in Orders(tree.objects.connections) :
        OnObjects("connections_paths", 0, 0, tree.objects,
                  connections_paths(tree.objects, keys))

NextObj ==
    \/ RegisterConnection
    \/ ConnectionPath
    \/ DeregisterConnection
    \/ ConnectionsPaths

ObjSpec == InitObj /\ [][NextObj]_vars

\* the registry, before the operation and now, on every uuid but this one
SameButFor(uuid) ==
    /\ DOMAIN tree.objects.connections \ {uuid} = DOMAIN last_op.before \ {uuid}
    /\ \A k \in DOMAIN last_op.before \ {uuid} :
           tree.objects.connections[k] = last_op.before[k]

\* C25: the ObjectsRegistry is a map from uuid to handle: register_connection
\* sets the handle of its uuid and nothing else (a second registration
\* overwrites), deregister_connection returns the handle the uuid had and
\* removes it, or returns nothing and changes nothing for a uuid that is not
\* registered, connection_path returns the handle or None, and
\* connections_paths returns exactly the registered handles.
C25_RegistryIsMap ==
    LET now == tree.objects.connections
        u   == last_op.uuid
    IN  /\ last_op.name = "register_connection" =>
               /\ connection_path(tree.objects, u) = Some(last_op.path)
               /\ u \in DOMAIN now
               /\ SameButFor(u)
        /\ last_op.name = "deregister_connection" =>
               /\ connection_path(tree.objects, u) = None
               /\ SameButFor(u)
               /\ last_op.result =
                      IF u \in DOMAIN last_op.before
                      THEN Some(last_op.before[u]) ELSE None
               /\ u \notin DOMAIN last_op.before => now = last_op.before
        /\ last_op.name = "connection_path" =>
               /\ now = last_op.before
               /\ last_op.result =
                      IF u \in DOMAIN now THEN Some(now[u]) ELSE None
        /\ last_op.name = "connections_paths" =>
               /\ now = last_op.before
               /\ Len(last_op.result) = Cardinality(DOMAIN now)
               /\ \A path \in TreePaths :
                      Cardinality({k \in DOMAIN last_op.result :
                                      last_op.result[k] = path})
                      = Cardinality({k \in DOMAIN now : now[k] = path})

\* a uuid was registered again with another handle while another uuid was
\* registered too
C25_Witness ==
    /\ last_op.name = "register_connection"
    /\ last_op.uuid \in DOMAIN last_op.before
    /\ last_op.before[last_op.uuid] # last_op.path
    /\ Cardinality(DOMAIN last_op.before) = 2

-----------------------------------------------------------------------------
(* tree.rs: the Tree *)

\* Result<(), ServiceError>
ServiceErr(e) == Err("Service", e)

\* the connections the Tree is called with: the variant decides whether the
\* Wireless interface is added
TreeConnection(kind, i) ==
    Conn(kind, IdOf(i), UuidOf(i), 0, "Up", None, 0, None, 0, 0)

\* the connection lists the Tree is called with: the connections of a State,
\* no uuid twice
TreeConnectionLists ==
    UNION {{[k \in 1..n |-> TreeConnection(kinds[k], is[k])] :
               kinds \in [1..n -> {"Ethernet", "Wireless"}],
               is \in {f \in [1..n -> 1..MaxTreeConns] :
                          \A j, k \in 1..n : f[j] = f[k] => j = k}} :
           n \in 0..MaxTreeConns}

\* the D-Bus interfaces add_connection puts on the object of a connection
InterfacesFor(conn) ==
    <<"Connection", "Ipv4">> \o
    (IF conn.kind = "Wireless" THEN <<"Wireless">> ELSE <<>>)

\* one step of a Tree operation as recorded in calls: the object path, the
\* connection, the interfaces the object server took and the outcome
TreeCall(op, path, uuid, added, r) ==
    [op |-> op, path |-> path, uuid |-> uuid, added |-> added, err |-> r]

\* the path of the next connection object
next_path(objects) == Cardinality(DOMAIN objects.connections)

\* the registry keeps its entries
clear_nothing(map) == map

\* HashMap::clear
clear(map) == EmptyMap

\* Tree::add_connection: the object server took the first n interfaces and
\* failed with r on the next one, or took them all (r is None)
Tree_add_connection(objects, conn, n, r) ==
    [objects |-> IF r = None
                 THEN register_connection(objects, conn.uuid, next_path(objects))
                 ELSE objects,
     call    |-> TreeCall("add_connection", next_path(objects), conn.uuid,
                          SubSeq(InterfacesFor(conn), 1, n), r),
     result  |-> IF r = None THEN Ok ELSE ServiceErr(r[1])]

\* the ways add_connection can go for a connection
AddOutcomes(conn) ==
    {[n |-> Len(InterfacesFor(conn)), r |-> None]} \cup
    {[n |-> n, r |-> Some(e)] :
        n \in 0..(Len(InterfacesFor(conn)) - 1), e \in Causes}

\* add_interface for each of these interfaces, all with Ok: object_server.at
\* puts the interface at the path unless the path has that interface
\* already (at returns false, which add_connection does not look at)
server_at(server, path, ifaces) ==
    server \cup
    {[path |-> path, iface |-> ifaces[k]] : k \in DOMAIN ifaces}

\* remove_connection_on: Wireless is removed and the outcome dropped, then
\* Ipv4, then Connection; n of these two were removed when it returned
remove_connection_on(server, path, n) ==
    LET removed == {"Wireless"} \cup
                   {<<"Ipv4", "Connection">>[k] : k \in 1..n}
    IN  {o \in server : ~(o.path = path /\ o.iface \in removed)}

\* the ways remove_connection_on can go: both removed, or an error from
\* the bus at the first or at the second remove
RemoveOutcomes ==
    {[n |-> 2, r |-> None]} \cup
    {[n |-> n, r |-> Some(e)] : n \in 0..1, e \in Causes}

\* Tree::remove_connection
Tree_remove_connection(objects, uuid, r) ==
    LET path == connection_path(objects, uuid)
    IN  IF path = None
        THEN [objects |-> objects, calls |-> <<>>, result |-> Ok]
        ELSE [objects |-> IF r = None
                          THEN deregister_connection(objects, uuid).objects
                          ELSE objects,
              calls   |-> <<TreeCall("remove_connection_on", path[1], uuid, <<>>, r)>>,
              result  |-> IF r = None THEN Ok ELSE ServiceErr(r[1])]

InitTree ==
    /\ network = [devices |-> <<>>, connections |-> <<>>]
    /\ live = <<>>
    /\ pc = "tree"
    /\ old_state = [devices |-> <<>>, connections |-> <<>>]
    /\ checkpoint = None
    /\ order = <<>>
    /\ idx = 0
    /\ failed = None
    /\ calls = <<>>
    /\ errlog = <<>>
    /\ result = None
    /\ last_op = NoOp
    /\ tree = NoTree
    /\ todo = <<>>
    /\ attempts = 0
    /\ actions = <<>>
    /\ setters = NoSetters
    /\ guard = None
    /\ probe = FALSE
    /\ product = None

\* refresh_connections is called: remove_connections starts to go through
\* objects.connections.values()
RefreshConnections ==
    /\ pc = "tree"
    /\ \E conns \in TreeConnectionLists, keys \in Orders(tree.objects.connections) :
          /\ last_op' = [name |-> "refresh_connections", conns |-> conns,
                         before |-> tree.objects.connections]
          /\ todo' = connections_paths(tree.objects, keys)
    /\ pc' = "remove_connections"
    /\ UNCHANGED <<actions, setters, guard, probe, product, attempts, network, live, old_state, checkpoint, order, idx, failed,
                   calls, errlog, result, tree>>

\* remove_connections: remove_connection_on for the next path
RemoveConnectionOn ==
    /\ pc = "remove_connections"
    /\ todo # <<>>
    /\ \E o \in RemoveOutcomes :
          /\ calls' = Append(calls,
                 TreeCall("remove_connection_on", Head(todo), 0, <<>>, o.r))
          /\ tree' = [tree EXCEPT
                          !.server = remove_connection_on(@, Head(todo), o.n)]
          /\ IF o.r = None
             THEN todo' = Tail(todo) /\ UNCHANGED <<pc, result>>
             ELSE /\ todo' = <<>>
                  /\ pc' = "returned"
                  /\ result' = Some(ServiceErr(o.r[1]))
    /\ UNCHANGED <<actions, setters, guard, probe, product, attempts, network, live, old_state, checkpoint, order, idx, failed,
                   errlog, last_op>>

\* remove_connections: objects.connections.clear(), then refresh_connections
\* goes on with add_connections
ClearConnections ==
    /\ pc = "remove_connections"
    /\ todo = <<>>
    /\ tree' = [tree EXCEPT !.objects.connections = clear(@)]
    /\ calls' = Append(calls, TreeCall("clear", 0, 0, <<>>, None))
    /\ todo' = last_op.conns
    /\ pc' = "add_connections"
    /\ UNCHANGED <<actions, setters, guard, probe, product, attempts, network, live, old_state, checkpoint, order, idx, failed,
                   errlog, result, last_op>>

\* add_connections is called
AddConnections ==
    /\ pc = "tree"
    /\ \E conns \in TreeConnectionLists :
          /\ last_op' = [name |-> "add_connections", conns |-> conns,
                         before |-> tree.objects.connections]
          /\ todo' = conns
    /\ pc' = "add_connections"
    /\ UNCHANGED <<actions, setters, guard, probe, product, attempts, network, live, old_state, checkpoint, order, idx, failed,
                   calls, errlog, result, tree>>

\* add_connections: add_connection for the next connection
AddNextConnection ==
    /\ pc = "add_connections"
    /\ todo # <<>>
    /\ \E o \in AddOutcomes(Head(todo)) :
          LET a == Tree_add_connection(tree.objects, Head(todo), o.n, o.r)
          IN  /\ tree' = [objects |-> a.objects,
                           server  |-> server_at(tree.server, a.call.path,
                                                 a.call.added)]
              /\ calls' = Append(calls, a.call)
              /\ IF a.result = Ok
                 THEN todo' = Tail(todo) /\ UNCHANGED <<pc, result>>
                 ELSE /\ todo' = <<>>
                      /\ pc' = "returned"
                      /\ result' = Some(a.result)
    /\ UNCHANGED <<actions, setters, guard, probe, product, attempts, network, live, old_state, checkpoint, order, idx, failed,
                   errlog, last_op>>

\* add_connections: the Connections interface is added at CONNECTIONS_PATH
AddConnectionsInterface ==
    /\ pc = "add_connections"
    /\ todo = <<>>
    /\ \E r \in Outcomes :
          /\ calls' = Append(calls,
                 TreeCall("add_interface", 0, 0,
                          IF r = None THEN <<"Connections">> ELSE <<>>, r))
          /\ result' = Some(IF r = None THEN Ok ELSE ServiceErr(r[1]))
    /\ pc' = "returned"
    /\ UNCHANGED <<actions, setters, guard, probe, product, attempts, network, live, old_state, checkpoint, order, idx, failed,
                   errlog, last_op, tree, todo>>

\* Tree::add_connection is called
TreeAddConnection ==
    /\ pc = "tree"
    /\ \E kind \in {"Ethernet", "Wireless"}, i \in 1..MaxTreeConns :
          \E o \in AddOutcomes(TreeConnection(kind, i)) :
             LET conn == TreeConnection(kind, i)
                 a    == Tree_add_connection(tree.objects, conn, o.n, o.r)
             IN  /\ last_op' = [name |-> "add_connection", conns |-> <<conn>>,
                                before |-> tree.objects.connections]
                 /\ tree' = [objects |-> a.objects,
                              server  |-> server_at(tree.server, a.call.path,
                                                    a.call.added)]
                 /\ calls' = <<a.call>>
                 /\ result' = Some(a.result)
    /\ pc' = "returned"
    /\ UNCHANGED <<actions, setters, guard, probe, product, attempts, network, live, old_state, checkpoint, order, idx, failed,
                   errlog, todo>>

\* Tree::remove_connection is called
TreeRemoveConnection ==
    /\ pc = "tree"
    /\ \E uuid \in TreeUuids, o \in RemoveOutcomes :
          LET a == Tree_remove_connection(tree.objects, uuid, o.r)
          IN  /\ last_op' = [name |-> "remove_connection", uuid |-> uuid,
                             before |-> tree.objects.connections]
              /\ tree' = [objects |-> a.objects,
                           server  |-> IF a.calls = <<>> THEN tree.server
                                       ELSE remove_connection_on(
                                                tree.server, a.calls[1].path, o.n)]
              /\ calls' = a.calls
              /\ result' = Some(a.result)
    /\ pc' = "returned"
    /\ UNCHANGED <<actions, setters, guard, probe, product, attempts, network, live, old_state, checkpoint, order, idx, failed,
                   errlog, todo>>

\* the caller takes the result; the Tree is ready for the next operation
TreeReturn ==
    /\ pc = "returned"
    /\ pc' = "tree"
    /\ calls' = <<>>
    /\ result' = None
    /\ last_op' = NoOp
    /\ UNCHANGED <<actions, setters, guard, probe, product, attempts, network, live, old_state, checkpoint, order, idx, failed,
                   errlog, tree, todo>>

NextTree ==
    \/ RefreshConnections
    \/ RemoveConnectionOn
    \/ ClearConnections
    \/ AddConnections
    \/ AddNextConnection
    \/ AddConnectionsInterface
    \/ TreeAddConnection
    \/ TreeRemoveConnection
    \/ TreeReturn

TreeSpec == InitTree /\ [][NextTree]_vars

\* the steps of the running Tree operation with one of these names
StepsOf(ops) == {k \in DOMAIN calls : calls[k].op \in ops}

\* the uuids of a connection list
UuidsOf(conns) == {conns[k].uuid : k \in DOMAIN conns}

\* C24: refresh_connections does not diff: it removes the object of every
\* registered connection and clears the registry before it adds any object,
\* then adds an object for each connection of conns; after a successful
\* call the keys of the registry are exactly the uuids of conns.
C24_RefreshRecreates ==
    last_op.name = "refresh_connections" =>
        LET removes == StepsOf({"remove_connection_on"})
            clears  == StepsOf({"clear"})
            adds    == StepsOf({"add_connection", "add_interface"})
        IN  /\ \A j \in removes \cup clears, k \in adds : j < k
            /\ \A j \in removes, k \in clears : j < k
            /\ Cardinality(clears) <= 1
            /\ clears # {} =>
                  /\ \A u \in DOMAIN last_op.before :
                         \E j \in removes :
                             /\ calls[j].path = last_op.before[u]
                             /\ calls[j].err = None
                  /\ DOMAIN tree.objects.connections
                         = {calls[k].uuid : k \in {a \in adds :
                               calls[a].op = "add_connection" /\ calls[a].err = None}}
            /\ adds # {} => clears # {}
            /\ (pc = "returned" /\ result = Some(Ok)) =>
                  /\ DOMAIN tree.objects.connections = UuidsOf(last_op.conns)
                  /\ \A k \in DOMAIN last_op.conns :
                         \E a \in adds :
                             /\ calls[a].op = "add_connection"
                             /\ calls[a].uuid = last_op.conns[k].uuid
                             /\ calls[a].added = InterfacesFor(last_op.conns[k])
                             /\ tree.objects.connections[last_op.conns[k].uuid]
                                    = calls[a].path

\* a refresh of two registered connections by a list that has only one of
\* them and is not empty has succeeded
C24_Witness ==
    /\ last_op.name = "refresh_connections"
    /\ pc = "returned"
    /\ result = Some(Ok)
    /\ Cardinality(DOMAIN last_op.before) = 2
    /\ Len(last_op.conns) = 1
    /\ DOMAIN tree.objects.connections # DOMAIN last_op.before

\* the interfaces that are on the bus at a path
ExposedAt(path) == {o.iface : o \in {x \in tree.server : x.path = path}}

\* C35: when remove_connection, refresh_connections or add_connection
\* returns an error from the bus, the registry holds a handle for a connection
\* exactly when the object of the connection is on the bus at the path of
\* the handle: no handle for an object that was removed, no object on the
\* bus without a handle.
C35_RegistryMatchesBus ==
    (/\ pc = "returned"
     /\ result # Some(Ok)
     /\ last_op.name \in {"remove_connection", "refresh_connections",
                           "add_connection"}) =>
        /\ \A u \in DOMAIN tree.objects.connections :
               {"Connection", "Ipv4"} \subseteq
                   ExposedAt(tree.objects.connections[u])
        /\ \A o \in tree.server :
               \E u \in DOMAIN tree.objects.connections :
                   tree.objects.connections[u] = o.path

-----------------------------------------------------------------------------
(* The Tree under add_connection and remove_connection alone *)

NextAddRemove ==
    \/ TreeAddConnection
    \/ TreeRemoveConnection
    \/ TreeReturn

AddRemoveSpec == InitTree /\ [][NextAddRemove]_vars

\* C31: after any sequence of Tree::add_connection and
\* Tree::remove_connection calls, two different registered connection
\* uuids never have the same object path.
C31_PathsAreUnique ==
    \A u, v \in DOMAIN tree.objects.connections :
        tree.objects.connections[u] = tree.objects.connections[v] => u = v

-----------------------------------------------------------------------------
(* model.rs: Ipv4Method and Ipv6Method, and the D-Bus properties of
   ip_config.rs that read and set them *)

\* enum Ipv4Method, enum Ipv6Method
Ipv4Methods == {"Disabled", "Auto", "Manual", "LinkLocal"}
Ipv6Methods == {"Disabled", "Auto", "Manual", "LinkLocal", "Ignore", "Dhcp"}

\* Ok(value)
OkValue(v) == [ok |-> TRUE, value |-> v]

\* impl fmt::Display for Ipv6Method
Ipv6Method_fmt(m) ==
    CASE m = "Disabled"  -> "disabled"
      [] m = "Auto"      -> "auto"
      [] m = "Manual"    -> "manual"
      [] m = "LinkLocal" -> "link-local"
      [] m = "Ignore"    -> "ignore"
      [] m = "Dhcp"      -> "dhcp"

\* impl FromStr for Ipv6Method
Ipv6Method_from_str(s) ==
    CASE s = "disabled"   -> OkValue("Disabled")
      [] s = "auto"       -> OkValue("Auto")
      [] s = "manual"     -> OkValue("Manual")
      [] s = "link-local" -> OkValue("LinkLocal")
      [] s = "ignore"     -> OkValue("Ignore")
      [] s = "dhcp"       -> OkValue("Dhcp")
      [] OTHER            -> Err("UnknownIpMethod", s)

\* impl fmt::Display for Ipv4Method
Ipv4Method_fmt(m) ==
    CASE m = "Disabled"  -> "disabled"
      [] m = "Auto"      -> "auto"
      [] m = "Manual"    -> "manual"
      [] m = "LinkLocal" -> "link-local"

\* the IPv4 method is parsed like the IPv6 one
Ipv4Method_from_str_like_v6(s) == Ipv6Method_from_str(s)

\* impl FromStr for Ipv4Method
Ipv4Method_from_str(s) ==
    CASE s = "disabled"   -> OkValue("Disabled")
      [] s = "auto"       -> OkValue("Auto")
      [] s = "manual"     -> OkValue("Manual")
      [] s = "link-local" -> OkValue("LinkLocal")
      [] OTHER            -> Err("UnknownIpMethod", s)

\* the texts the setters are called with: the six method names and some
\* that are none
MethodTexts ==
    {"disabled", "auto", "manual", "link-local", "ignore", "dhcp",
     "", "Auto", "static", "link_local"}

\* IpConfig::default(), as far as the methods go
DefaultIpConfig == [method4 |-> "Disabled", method6 |-> "Disabled"]

\* the connection the Ip interface exposes
InitIp ==
    /\ network = [devices |-> <<>>,
                  connections |-> <<Conn("Ethernet", IdOf(1), UuidOf(1),
                                         DefaultIpConfig, "Up", None, 0, None,
                                         0, 0)>>]
    /\ live = <<>>
    /\ pc = "ip"
    /\ old_state = [devices |-> <<>>, connections |-> <<>>]
    /\ checkpoint = None
    /\ order = <<>>
    /\ idx = 0
    /\ failed = None
    /\ calls = <<>>
    /\ errlog = <<>>
    /\ result = None
    /\ last_op = NoOp
    /\ tree = NoTree
    /\ todo = <<>>
    /\ attempts = 0
    /\ actions = <<>>
    /\ setters = NoSetters
    /\ guard = None
    /\ probe = FALSE
    /\ product = None

\* one call of a property of the Ip interface: its argument, what it
\* returned and the ip_config it left
OnIpConfig(name, text, ip_config, r) ==
    /\ pc = "ip"
    /\ network' = [network EXCEPT !.connections[1].ip_config = ip_config]
    /\ last_op' = [name |-> name, text |-> text, result |-> r,
                   before |-> network.connections[1].ip_config]
    /\ UNCHANGED <<actions, setters, guard, probe, product, attempts, live, pc, old_state, checkpoint, order, idx, failed, calls,
                   errlog, result, tree, todo>>

\* Ip::method4
Method4 ==
    LET ip == network.connections[1].ip_config
    IN  OnIpConfig("method4", "", ip, Ipv4Method_fmt(ip.method4))

\* Ip::set_method4
SetMethod4 ==
    \E text \in MethodTexts :
        LET ip     == network.connections[1].ip_config
            method == Ipv4Method_from_str(text)
        IN  IF method.ok
            THEN OnIpConfig("set_method4", text,
                            [ip EXCEPT !.method4 = method.value], Ok)
            ELSE OnIpConfig("set_method4", text, ip, method)

\* Ip::method6
Method6 ==
    LET ip == network.connections[1].ip_config
    IN  OnIpConfig("method6", "", ip, Ipv6Method_fmt(ip.method6))

\* Ip::set_method6
SetMethod6 ==
    \E text \in MethodTexts :
        LET ip     == network.connections[1].ip_config
            method == Ipv6Method_from_str(text)
        IN  IF method.ok
            THEN OnIpConfig("set_method6", text,
                            [ip EXCEPT !.method6 = method.value], Ok)
            ELSE OnIpConfig("set_method6", text, ip, method)

NextIp ==
    \/ Method4
    \/ SetMethod4
    \/ Method6
    \/ SetMethod6

IpSpec == InitIp /\ [][NextIp]_vars

\* the textual forms of the methods
Ipv4Names == {"disabled", "auto", "manual", "link-local"}
Ipv6Names == Ipv4Names \cup {"ignore", "dhcp"}

\* C26: parsing the textual form of an IP method gives the method back, for
\* every Ipv4Method and every Ipv6Method; every other text, and "ignore" and
\* "dhcp" for Ipv4Method, fails with UnknownIpMethod carrying the text.
C26_MethodRoundTrip ==
    LET ip == network.connections[1].ip_config
    IN  /\ pc = "ip" =>
              /\ ip.method4 \in Ipv4Methods
              /\ ip.method6 \in Ipv6Methods
              /\ Ipv4Method_fmt(ip.method4) \in Ipv4Names
              /\ Ipv6Method_fmt(ip.method6) \in Ipv6Names
              /\ Ipv4Method_from_str(Ipv4Method_fmt(ip.method4)) = OkValue(ip.method4)
              /\ Ipv6Method_from_str(Ipv6Method_fmt(ip.method6)) = OkValue(ip.method6)
        /\ last_op.name = "set_method4" =>
              IF last_op.text \in Ipv4Names
              THEN /\ last_op.result = Ok
                   /\ Ipv4Method_fmt(ip.method4) = last_op.text
              ELSE /\ last_op.result = Err("UnknownIpMethod", last_op.text)
                   /\ ip = last_op.before
        /\ last_op.name = "set_method6" =>
              IF last_op.text \in Ipv6Names
              THEN /\ last_op.result = Ok
                   /\ Ipv6Method_fmt(ip.method6) = last_op.text
              ELSE /\ last_op.result = Err("UnknownIpMethod", last_op.text)
                   /\ ip = last_op.before

\* "ignore" was refused as IPv4 method while it is the IPv6 method
C26_Witness ==
    /\ last_op.name = "set_method4"
    /\ last_op.text = "ignore"
    /\ last_op.result = Err("UnknownIpMethod", "ignore")
    /\ network.connections[1].ip_config.method6 = "Ignore"
    /\ network.connections[1].ip_config.method4 = "LinkLocal"

-----------------------------------------------------------------------------
(* main.rs: the install command of the CLI *)

\* the number of values of a u8
U8 == 256

\* attempts += 1 on a u8: past the largest value a debug build panics and a
\* release build wraps around
Incremented(n, build) ==
    IF n + 1 < U8 THEN Some(n + 1)
    ELSE IF build = "debug" THEN None
    ELSE Some((n + 1) % U8)

Builds == {"debug", "release"}

\* the outcomes of manager.install(): its error is printed and dropped, so
\* one error stands for all
InstallOutcomes == {None, Some("e1")}

\* install(&manager, max_attempts) is called
InitCli ==
    /\ network = [devices |-> <<>>, connections |-> <<>>]
    /\ live = <<>>
    /\ pc = "wait"
    /\ old_state = [devices |-> <<>>, connections |-> <<>>]
    /\ checkpoint = None
    /\ order = <<>>
    /\ idx = 0
    /\ failed = None
    /\ calls = <<>>
    /\ errlog = <<>>
    /\ result = None
    /\ \E n \in 0..MaxAttempts : last_op = [name |-> "install", max_attempts |-> n]
    /\ tree = NoTree
    /\ todo = <<>>
    /\ attempts = 0
    /\ actions = <<>>
    /\ setters = NoSetters
    /\ guard = None
    /\ probe = FALSE
    /\ product = None

\* manager.wait().await?
WaitManager ==
    /\ pc = "wait"
    /\ \E r \in Outcomes :
          /\ calls' = Append(calls, Call("wait", 0, 0, None, r))
          /\ IF r = None
             THEN pc' = "can_install" /\ UNCHANGED result
             ELSE pc' = "done" /\ result' = Some(ServiceErr(r[1]))
    /\ UNCHANGED <<actions, setters, guard, probe, product, attempts, last_op, tree, todo, network, live, old_state,
                   checkpoint, order, idx, failed, errlog>>

\* if !manager.can_install().await? { return Err(ValidationError) }, then
\* let mut attempts = 1
CanInstall ==
    /\ pc = "can_install"
    /\ \E r \in Outcomes, can \in BOOLEAN :
          /\ calls' = Append(calls, Call("can_install", 0, 0, None, r))
          /\ IF r # None
             THEN pc' = "done" /\ result' = Some(ServiceErr(r[1]))
                  /\ UNCHANGED attempts
             ELSE IF ~can
             THEN pc' = "done" /\ result' = Some(Err("ValidationError", None))
                  /\ UNCHANGED attempts
             ELSE pc' = "install" /\ attempts' = 1 /\ UNCHANGED result
    /\ UNCHANGED <<actions, setters, guard, probe, product, last_op, tree, todo, network, live,
                   old_state, checkpoint,
                   order, idx, failed, errlog>>

\* one turn of the loop: manager.install(), the test of attempts against
\* max_attempts, attempts += 1
TryInstall ==
    /\ pc = "install"
    /\ \E r \in InstallOutcomes, build \in Builds :
          /\ calls' = Append(calls, Call("install", 0, 0, None, r))
          /\ IF r = None
             THEN pc' = "done" /\ result' = Some(Ok) /\ UNCHANGED attempts
             ELSE IF attempts = last_op.max_attempts
             THEN /\ pc' = "done"
                  /\ result' = Some(Err("InstallationError", None))
                  /\ UNCHANGED attempts
             ELSE IF Incremented(attempts, build) = None
             THEN pc' = "panicked" /\ UNCHANGED <<actions, setters, guard, probe, product, attempts, result>>
             ELSE /\ attempts' = Incremented(attempts, build)[1]
                  /\ UNCHANGED <<pc, result>>
    /\ UNCHANGED <<actions, setters, guard, probe, product, last_op, tree, todo, network, live,
                   old_state, checkpoint,
                   order, idx, failed, errlog>>

NextCli ==
    \/ WaitManager
    \/ CanInstall
    \/ TryInstall

CliSpec == InitCli /\ [][NextCli]_vars

-----------------------------------------------------------------------------
(* More properties of write *)

\* C28: whenever write issues add_or_update_connection for a connection
\* that has a controller, the controller exists in the backend at that
\* moment: it was in the live state or was added earlier in the same write,
\* and this write has not removed it.
C28_ControllerInBackend ==
    \A k \in CallsOf({"add_or_update_connection"}) :
        calls[k].ctrl # None =>
            LET controller == network.connections[calls[k].ctrl[1]]
            IN  /\ \/ InLive(controller)
                   \/ \E j \in CallsOf({"add_or_update_connection"}) :
                          /\ j < k
                          /\ calls[j].uuid = controller.uuid
                          /\ calls[j].err = None
                /\ ~\E j \in CallsOf({"remove_connection"}) :
                          /\ j < k
                          /\ calls[j].uuid = controller.uuid
                          /\ calls[j].err = None

-----------------------------------------------------------------------------
(* write on the States of the State Registry: the operations of the registry
   build the State, then write is called with it *)

\* write(&self, network): called with the State the operations have left,
\* against a backend that holds no connection
StartWrite ==
    /\ pc = "registry"
    /\ pc' = "read_devices"
    /\ UNCHANGED <<network, live, old_state, checkpoint, order, idx, failed,
                   calls, errlog, result, last_op, tree, todo, attempts,
                   actions, setters, guard, probe, product>>

NextApply ==
    \/ NextReg
    \/ StartWrite
    \/ Next

ApplySpec == InitReg /\ [][NextApply]_vars

\* some connection names a controller that no connection of the State has
Dangling ==
    \E k \in DOMAIN network.connections :
        /\ network.connections[k].controller # None
        /\ get_connection_by_uuid(network,
                                  network.connections[k].controller[1]) = None

\* C29: a desired state in which some connection's controller uuid matches no
\* connection makes write end with an error result, not a crash, and no
\* connection write is issued without a checkpoint rollback or destroy
\* matching it.
C29_DanglingIsAnError ==
    (Dangling /\ pc \notin {"registry", "applied"}) =>
        /\ pc # "panicked"
        /\ Returned =>
              /\ ~result[1].ok
              /\ CallsOf(ConnOps) # {} =>
                     CallsOf({"rollback_checkpoint", "destroy_checkpoint"}) # {}

\* C30: ordered_connections returns for every State the operations of the
\* registry can build, also when a bond is a port of itself or two bonds are
\* each other's port: the recursion over the controllers never runs without
\* end.
C30_OrderedConnectionsTerminates == pc # "overflow"

-----------------------------------------------------------------------------
(* write while the Tree exposes the connections of the desired state *)

\* the registry after add_connection has succeeded for each of these
\* connections
RECURSIVE Exposing(_, _)
Exposing(conns, t) ==
    IF conns = <<>> THEN t
    ELSE LET conn == Head(conns)
             a    == Tree_add_connection(t.objects, conn,
                                         Len(InterfacesFor(conn)), None)
         IN  Exposing(Tail(conns),
                      [objects |-> a.objects,
                       server  |-> server_at(t.server, a.call.path, a.call.added)])

\* write on any desired state of up to MaxConns connections, against any
\* backend content related to it, while the Tree holds a handle for each
\* connection of the desired state
InitExposed ==
    /\ \E n \in 1..MaxConns :
          network \in DesiredStates(n, WriteKinds, {"Up", "Removed"})
    /\ live \in LiveStates(network)
    /\ pc = "read_devices"
    /\ old_state = [devices |-> <<>>, connections |-> <<>>]
    /\ checkpoint = None
    /\ order = <<>>
    /\ idx = 0
    /\ failed = None
    /\ calls = <<>>
    /\ errlog = <<>>
    /\ result = None
    /\ last_op = [name |-> "write", before |-> network.connections]
    /\ tree = Exposing(network.connections, NoTree)
    /\ todo = <<>>
    /\ attempts = 0
    /\ actions = <<>>
    /\ setters = NoSetters
    /\ guard = None
    /\ probe = FALSE
    /\ product = None

ExposedSpec == InitExposed /\ [][Next]_vars

\* C34: write changes neither the desired state it is given nor the
\* registry of the Tree, whatever its outcome (Ok, Read, Checkpoint or Write
\* error): the Removed connections are still in the desired state after a
\* successful write.
C34_WriteKeepsStates ==
    /\ network.connections = last_op.before
    /\ tree = Exposing(last_op.before, NoTree)

\* write has removed a connection from the backend and returned Ok
C34_Witness ==
    /\ Returned
    /\ result = Some(Ok)
    /\ \E k \in CallsOf({"remove_connection"}) :
           /\ calls[k].err = None
           /\ is_removed(network.connections[calls[k].conn])
    /\ DOMAIN tree.objects.connections # {}

-----------------------------------------------------------------------------
(* ip_config.rs: the property setters of the Ip interface, called by
   several D-Bus clients at the same time *)

\* <IpAddr as FromStr>::from_str on the texts the setters are called with
IpAddr_from_str(s) ==
    CASE s = "192.168.1.1" -> OkValue([family |-> "V4", octets |-> <<192, 168, 1, 1>>])
      [] s = "::1"         -> OkValue([family |-> "V6", segments |-> <<0, 0, 0, 0, 0, 0, 0, 1>>])
      [] OTHER             -> Err("AddrParseError", s)

\* a text that is no address removes the gateway
parse_gateway_lenient(gateway) ==
    IF IpAddr_from_str(gateway).ok
    THEN OkValue(Some(IpAddr_from_str(gateway).value))
    ELSE OkValue(None)

\* helpers::parse_gateway
parse_gateway(gateway) ==
    IF gateway = ""
    THEN OkValue(None)
    ELSE IF IpAddr_from_str(gateway).ok
         THEN OkValue(Some(IpAddr_from_str(gateway).value))
         ELSE Err("InvalidIpAddr", gateway)

\* the setters of the Ip interface that parse their argument
SetterNames == {"set_method4", "set_method6", "set_gateway4", "set_gateway6"}

\* the first statement of a setter: the argument is parsed
parsed(name, text) ==
    CASE name = "set_method4"  -> Ipv4Method_from_str(text)
      [] name = "set_method6"  -> Ipv6Method_from_str(text)
      [] name = "set_gateway4" -> parse_gateway(text)
      [] name = "set_gateway6" -> parse_gateway(text)

\* the closure a setter hands to update_config
func(name, value, ip) ==
    CASE name = "set_method4"  -> [ip EXCEPT !.method4 = value]
      [] name = "set_method6"  -> [ip EXCEPT !.method6 = value]
      [] name = "set_gateway4" -> [ip EXCEPT !.gateway4 = value]
      [] name = "set_gateway6" -> [ip EXCEPT !.gateway6 = value]

\* the texts a setter is called with: some it takes and some it refuses
SetterTexts(name) ==
    IF name \in {"set_method4", "set_method6"}
    THEN {"auto", "dhcp", "static"}
    ELSE {"", "192.168.1.1", "::1", "10.0.0.300"}

\* IpConfig::default(), as far as the setters go
SetterIpConfig ==
    [method4 |-> "Disabled", method6 |-> "Disabled",
     gateway4 |-> None, gateway6 |-> None]

\* Action::UpdateConnection(connection)
UpdateConnectionAction(conn) == [name |-> "UpdateConnection", connection |-> conn]

\* the guard is dropped when func has run
guard_in_update_connection_dropped(c) == None

\* self.update_connection(connection).await: the MutexGuard is moved into
\* update_connection, the Mutex stays locked until it returns
guard_in_update_connection(c) == Some(c)

\* Ip::new on a connection with the default IpConfig; no setter is running,
\* nothing was sent
InitSetters ==
    /\ network = [devices |-> <<>>,
                  connections |-> <<Conn("Ethernet", IdOf(1), UuidOf(1),
                                         SetterIpConfig, "Up", None, 0, None,
                                         0, 0)>>]
    /\ live = <<>>
    /\ pc = "setters"
    /\ old_state = [devices |-> <<>>, connections |-> <<>>]
    /\ checkpoint = None
    /\ order = <<>>
    /\ idx = 0
    /\ failed = None
    /\ calls = <<>>
    /\ errlog = <<>>
    /\ result = None
    /\ last_op = NoOp
    /\ tree = NoTree
    /\ todo = <<>>
    /\ attempts = 0
    /\ actions = <<>>
    /\ setters = NoSetters
    /\ guard = None
    /\ probe = FALSE
    /\ product = None

\* the setter calls that have not returned
Running == {c \in DOMAIN setters : setters[c].pc # "returned"}

\* a client calls a setter: the argument is parsed, and the `?` returns the
\* error at once
CallSetter(c) ==
    /\ pc = "setters"
    /\ c \notin DOMAIN setters
    /\ Len(calls) + Cardinality(Running) < MaxMutations
    /\ \E name \in SetterNames :
          \E text \in SetterTexts(name) :
             LET r == parsed(name, text)
             IN  setters' = [k \in DOMAIN setters \cup {c} |->
                    IF k # c THEN setters[k]
                    ELSE IF r.ok
                         THEN [name |-> name, text |-> text, value |-> Some(r.value),
                               pc |-> "get_connection", result |-> None]
                         ELSE [name |-> name, text |-> text, value |-> None,
                               pc |-> "returned", result |-> Some(r)]]
    /\ UNCHANGED <<network, live, pc, old_state, checkpoint, order, idx, failed,
                   calls, errlog, result, last_op, tree, todo, attempts,
                   actions, guard, probe, product>>

\* update_config: self.get_connection().await gets the Mutex when it is
\* free, then func(&mut connection.ip_config) runs; calls keeps the
\* connection as each mutation left it
GetConnection(c) ==
    /\ c \in DOMAIN setters
    /\ setters[c].pc = "get_connection"
    /\ guard = None
    /\ probe = FALSE
    /\ product = None
    /\ LET conn == [network.connections[1] EXCEPT
                        !.ip_config = func(setters[c].name, setters[c].value[1], @)]
       IN  /\ network' = [network EXCEPT !.connections[1] = conn]
           /\ calls' = Append(calls, [setter |-> c, name |-> setters[c].name,
                                      text |-> setters[c].text,
                                      connection |-> conn])
    /\ guard' = guard_in_update_connection(c)
    /\ setters' = [setters EXCEPT ![c].pc = "update_connection"]
    /\ UNCHANGED <<live, pc, old_state, checkpoint, order, idx, failed, errlog,
                   result, last_op, tree, todo, attempts, actions, probe,
                   product>>

\* Ip::update_connection: actions.send(Action::UpdateConnection(
\* connection.clone())), Ok(()); the guard is dropped
SendUpdateConnection(c) ==
    /\ c \in DOMAIN setters
    /\ setters[c].pc = "update_connection"
    /\ actions' = Append(actions, UpdateConnectionAction(network.connections[1]))
    /\ guard' = None
    /\ setters' = [setters EXCEPT ![c].pc = "returned", ![c].result = Some(Ok)]
    /\ UNCHANGED <<network, live, pc, old_state, checkpoint, order, idx, failed,
                   calls, errlog, result, last_op, tree, todo, attempts, probe,
                   product>>

\* the client has its reply
SetterReturn(c) ==
    /\ c \in DOMAIN setters
    /\ setters[c].pc = "returned"
    /\ setters' = [k \in DOMAIN setters \ {c} |-> setters[k]]
    /\ UNCHANGED <<network, live, pc, old_state, checkpoint, order, idx, failed,
                   calls, errlog, result, last_op, tree, todo, attempts,
                   actions, guard, probe, product>>

NextSetters ==
    \E c \in 1..MaxSetters :
        \/ CallSetter(c)
        \/ GetConnection(c)
        \/ SendUpdateConnection(c)
        \/ SetterReturn(c)

SetterSpec == InitSetters /\ [][NextSetters]_vars

\* the texts a setter has to refuse: no name of a method of its family, or
\* not empty and no IP address
Invalid(name, text) ==
    CASE name = "set_method4" -> text \notin Ipv4Names
      [] name = "set_method6" -> text \notin Ipv6Names
      [] OTHER -> text \notin {"", "192.168.1.1", "::1"}

\* the error of a refused text
ErrorFor(name, text) ==
    IF name \in {"set_method4", "set_method6"}
    THEN Err("UnknownIpMethod", text)
    ELSE Err("InvalidIpAddr", text)

\* what every step of the setters keeps to: a call with an invalid value has
\* returned its error when it shows up, having changed nothing, and whatever
\* changes the connection or the channel is a step of a call with a valid one
InvalidValueRefused ==
    /\ \A c \in DOMAIN setters' :
           Invalid(setters'[c].name, setters'[c].text) =>
               /\ setters'[c].pc = "returned"
               /\ setters'[c].result = Some(ErrorFor(setters'[c].name,
                                                     setters'[c].text))
               /\ c \notin DOMAIN setters =>
                      /\ network' = network
                      /\ actions' = actions
    /\ \A k \in DOMAIN calls' : ~Invalid(calls'[k].name, calls'[k].text)
    /\ (network' # network \/ actions' # actions) =>
           \E c \in DOMAIN setters :
               /\ ~Invalid(setters[c].name, setters[c].text)
               /\ setters'[c].pc # setters[c].pc

\* C36: a property setter of the Ip interface that is given an invalid value
\* (set_method4 or set_method6 with a text that is no method name,
\* set_gateway4 or set_gateway6 with a text that is not empty and no IP
\* address) returns an error, leaves the ip_config of the exposed connection
\* as it is and sends no UpdateConnection action.
C36_InvalidValueRefused == [][InvalidValueRefused]_vars

\* a gateway that is no address was refused after another call had set the
\* gateway, which is still there, and one action was sent
C36_Witness ==
    /\ \E c \in DOMAIN setters :
           /\ setters[c].name = "set_gateway4"
           /\ setters[c].text = "10.0.0.300"
           /\ setters[c].result = Some(Err("InvalidIpAddr", "10.0.0.300"))
    /\ network.connections[1].ip_config.gateway4 # None
    /\ Len(actions) = 1

\* C37: every setter that succeeds sends exactly one UpdateConnection action
\* with the connection as its mutation left it; however the setters that
\* run at the same time on a connection interleave, the actions are in the
\* channel in the order of the mutations, so the last action has every
\* earlier mutation.
C37_ActionsFollowMutations ==
    /\ Len(actions) <= Len(calls)
    /\ \A k \in DOMAIN actions :
           actions[k] = UpdateConnectionAction(calls[k].connection)
    /\ \A c \in DOMAIN setters :
           setters[c].result = Some(Ok) =>
               Cardinality({k \in DOMAIN actions : calls[k].setter = c}) >= 1
    /\ {c \in DOMAIN setters : setters[c].pc = "update_connection"} = {} =>
           /\ Len(actions) = Len(calls)
           /\ actions # <<>> =>
                  actions[Len(actions)].connection = network.connections[1]

\* two setters were called before either had the Mutex; both have changed
\* the connection, another field each, and sent their action
C37_Witness ==
    /\ Len(actions) = 2
    /\ calls[1].setter # calls[2].setter
    /\ DOMAIN setters = {calls[1].setter, calls[2].setter}
    /\ \A c \in DOMAIN setters : setters[c].result = Some(Ok)
    /\ calls[2].setter = 1
    /\ actions[2].connection.ip_config.method4 = "Auto"
    /\ actions[2].connection.ip_config.gateway6 # None
    /\ actions[1].connection.ip_config.method4 = "Disabled"

-----------------------------------------------------------------------------
(* product/store.rs: ProductStore::store *)

\* the result codes of register that store takes as success: registered,
\* and registration not required
Registered == 0
NotRequired == 3

\* the products of the service
Products == {"ALP", "Tumbleweed"}

\* ProductSettings: every field is an Option
ProductSettingsSet ==
    [id : {None} \cup {Some(p) : p \in Products},
     registration_code : {None, Some("code")},
     registration_email : {None, Some("mail")}]

\* one call of ProductClient or ManagerClient as recorded in calls: its
\* arguments, the error it failed with and the value it returned
ClientCall(op, args, r, value) ==
    [op |-> op, args |-> args, err |-> r, value |-> value]

\* Err(ServiceError) out of a client call, returned by `?`
service_err(e) == Err("Service", e)

\* the message register returns with a result code
MessageOf(code) == IF code \in {Registered, NotRequired} THEN "" ELSE "failed"

\* store is called with any settings while the service has any product
\* selected
InitStore ==
    /\ last_op \in {[name |-> "store", settings |-> st] : st \in ProductSettingsSet}
    /\ product \in {Some(p) : p \in Products}
    /\ probe = FALSE
    /\ pc = "store"
    /\ network = [devices |-> <<>>, connections |-> <<>>]
    /\ live = <<>>
    /\ old_state = [devices |-> <<>>, connections |-> <<>>]
    /\ checkpoint = None
    /\ order = <<>>
    /\ idx = 0
    /\ failed = None
    /\ calls = <<>>
    /\ errlog = <<>>
    /\ result = None
    /\ tree = NoTree
    /\ todo = <<>>
    /\ attempts = 0
    /\ actions = <<>>
    /\ setters = NoSetters
    /\ guard = None

\* where store goes when it is done with the product: to register if the
\* settings have a registration code, else to the probe if it is due, else
\* to its end
after_product(settings, due) ==
    IF settings.registration_code # None THEN "register"
    ELSE IF due THEN "probe" ELSE "return"

\* the probe is never due
after_registration_no_probe(due) == "return"

\* where store goes after a registration that was taken as success
after_registration(due) == IF due THEN "probe" ELSE "return"

\* let mut probe = false; if let Some(product) = &settings.id
StoreCalled ==
    /\ pc = "store"
    /\ pc' = IF last_op.settings.id # None THEN "product"
             ELSE after_product(last_op.settings, FALSE)
    /\ UNCHANGED <<network, live, old_state, checkpoint, order, idx, failed, calls,
                   errlog, result, last_op, tree, todo, attempts, actions,
                   setters, guard, probe, product>>

\* let existing_product = self.product_client.product().await?;
\* if *product != existing_product
StoreProduct ==
    /\ pc = "product"
    /\ \E r \in Outcomes :
          /\ calls' = Append(calls,
                 ClientCall("product", <<>>, r, IF r = None THEN product ELSE None))
          /\ IF r # None
             THEN pc' = "done" /\ result' = Some(service_err(r[1]))
             ELSE /\ pc' = IF last_op.settings.id # product
                            THEN "select_product"
                            ELSE after_product(last_op.settings, probe)
                  /\ UNCHANGED result
    /\ UNCHANGED <<network, live, old_state, checkpoint, order, idx, failed,
                   errlog, last_op, tree, todo, attempts, actions, setters,
                   guard, probe, product>>

\* self.product_client.select_product(product).await?; probe = true;
StoreSelectProduct ==
    /\ pc = "select_product"
    /\ \E r \in Outcomes :
          /\ calls' = Append(calls,
                 ClientCall("select_product", <<last_op.settings.id[1]>>, r, None))
          /\ IF r # None
             THEN /\ pc' = "done"
                  /\ result' = Some(service_err(r[1]))
                  /\ UNCHANGED <<probe, product>>
             ELSE /\ product' = last_op.settings.id
                  /\ probe' = TRUE
                  /\ pc' = after_product(last_op.settings, TRUE)
                  /\ UNCHANGED result
    /\ UNCHANGED <<network, live, old_state, checkpoint, order, idx, failed,
                   errlog, last_op, tree, todo, attempts, actions, setters,
                   guard>>

\* (result, message) = self.product_client.register(reg_code, email).await?
\* with "" for no email; if result != 0 && result != 3 { return
\* Err(ServiceError::FailedRegistration(message)) }; probe = true;
StoreRegister ==
    /\ pc = "register"
    /\ LET email == IF last_op.settings.registration_email # None
                    THEN last_op.settings.registration_email[1] ELSE ""
           args  == <<last_op.settings.registration_code[1], email>>
       IN  \/ \E e \in Causes :
                /\ calls' = Append(calls, ClientCall("register", args, Some(e), None))
                /\ pc' = "done"
                /\ result' = Some(service_err(e))
                /\ UNCHANGED probe
           \/ \E code \in 0..MaxResult :
                /\ calls' = Append(calls,
                       ClientCall("register", args, None,
                                  Some(<<code, MessageOf(code)>>)))
                /\ IF code # Registered /\ code # NotRequired
                   THEN /\ pc' = "done"
                        /\ result' = Some(Err("FailedRegistration", MessageOf(code)))
                        /\ UNCHANGED probe
                   ELSE /\ probe' = TRUE
                        /\ pc' = after_registration(TRUE)
                        /\ UNCHANGED result
    /\ UNCHANGED <<network, live, old_state, checkpoint, order, idx, failed,
                   errlog, last_op, tree, todo, attempts, actions, setters,
                   guard, product>>

\* if probe { self.manager_client.probe().await?; } Ok(())
StoreProbe ==
    /\ pc = "probe"
    /\ \E r \in Outcomes :
          /\ calls' = Append(calls, ClientCall("probe", <<>>, r, None))
          /\ result' = Some(IF r = None THEN Ok ELSE service_err(r[1]))
    /\ pc' = "done"
    /\ UNCHANGED <<network, live, old_state, checkpoint, order, idx, failed,
                   errlog, last_op, tree, todo, attempts, actions, setters,
                   guard, probe, product>>

\* Ok(()) without a probe
StoreReturn ==
    /\ pc = "return"
    /\ pc' = "done"
    /\ result' = Some(Ok)
    /\ UNCHANGED <<network, live, old_state, checkpoint, order, idx, failed, calls,
                   errlog, last_op, tree, todo, attempts, actions, setters,
                   guard, probe, product>>

NextStore ==
    \/ StoreCalled
    \/ StoreProduct
    \/ StoreSelectProduct
    \/ StoreRegister
    \/ StoreProbe
    \/ StoreReturn

StoreSpec == InitStore /\ [][NextStore]_vars

\* the calls of a client operation that succeeded
OkCalls(op) == {k \in DOMAIN calls : calls[k].op = op /\ calls[k].err = None}

\* a product was selected
Selected == OkCalls("select_product") # {}

\* the result code of an answered register call
CodeOf(k) == calls[k].value[1][1]

\* the registration code was registered with a result store takes as success
GoodRegistration ==
    \E k \in OkCalls("register") : CodeOf(k) \in {Registered, NotRequired}

\* register answered with another result
BadRegistration ==
    \E k \in OkCalls("register") : CodeOf(k) \notin {Registered, NotRequired}

\* a call of the product service failed
ProductCallFailed ==
    \E k \in DOMAIN calls : calls[k].op # "probe" /\ calls[k].err # None

\* select_product is only called after product() has answered with another
\* product than the requested one
SelectsOnlyAnother ==
    \A k \in DOMAIN calls :
        calls[k].op = "select_product" =>
            /\ k > 1
            /\ calls[k - 1].op = "product"
            /\ calls[k - 1].err = None
            /\ calls[k - 1].value # last_op.settings.id
            /\ calls[k].args = <<last_op.settings.id[1]>>

\* probe is called once, as the last call, or not at all
ProbedOnce(due) ==
    /\ Count("probe") = IF due THEN 1 ELSE 0
    /\ due => calls[Len(calls)].op = "probe"

\* C39 as stated: store calls select_product only when the requested product
\* differs from the selected one, and calls probe exactly once at the end if
\* and only if a product was selected or a registration code was registered
\* with result 0 or 3; another registration result makes store return
\* FailedRegistration without calling probe, also when a product was selected.
C39_ProbeIffChanged ==
    (pc = "done" /\ last_op.name = "store") =>
        /\ SelectsOnlyAnother
        /\ IF BadRegistration
           THEN /\ \E k \in OkCalls("register") :
                       result = Some(Err("FailedRegistration", calls[k].value[1][2]))
                /\ ProbedOnce(FALSE)
           ELSE ProbedOnce(Selected \/ GoodRegistration)

\* C39, amended: the same, when no call of the product service fails; a
\* failed product(), select_product() or register() call makes store return
\* that error without calling probe, also when a product was selected.
C39_ProbeIffChangedAndNoFailure ==
    (pc = "done" /\ last_op.name = "store") =>
        /\ SelectsOnlyAnother
        /\ IF BadRegistration
           THEN /\ \E k \in OkCalls("register") :
                       result = Some(Err("FailedRegistration", calls[k].value[1][2]))
                /\ ProbedOnce(FALSE)
           ELSE IF ProductCallFailed
           THEN /\ result = Some(service_err(calls[Len(calls)].err[1]))
                /\ ProbedOnce(FALSE)
           ELSE ProbedOnce(Selected \/ GoodRegistration)

\* a product was selected and the register call that followed failed: store
\* has returned the error without a probe
C39_Witness ==
    /\ pc = "done"
    /\ last_op.name = "store"
    /\ Selected
    /\ calls[Len(calls)].op = "register"
    /\ calls[Len(calls)].err # None
    /\ result = Some(service_err(calls[Len(calls)].err[1]))

====
